---------------------------- MODULE Spec2Model ----------------------------
(***************************************************************************)
(* Recitation follow-along page (the Home component) and the text helpers  *)
(* it uses.  Text is a sequence of UTF-16 code units, so that the regular  *)
(* expressions of the normaliser keep their character classes.  Indices    *)
(* (vIdx, wIdx, result indices) are 0-based as in the source; sequences    *)
(* are 1-based, hence the "+ 1" at every subscript.                        *)
(***************************************************************************)
EXTENDS Integers, Sequences, FiniteSets, TLC

VARIABLES
    selectedSurah,               \* useState selectedSurah, 0 for null
    versesRef,                   \* verses / versesRef.current (set together)
    loadingVerses,               \* useState loadingVerses
    normalizedVersesRef,         \* normalizedVersesRef.current
    vIdxRef, wIdxRef,            \* cursor refs (currentVerseIndex/currentWordIndex mirror them)
    revealedSetRef,              \* Set of keys `${verse}-${wordIndex}`
    revealedWords,               \* useState revealedWords: WordStatus[]
    errorCount,                  \* useState errorCount
    consecutiveMissRef,
    lastProcessedFinalIndexRef,
    interimProcessedCountRef,
    isListeningRef,              \* isListening / isListeningRef.current (set together)
    recognitionRef,              \* index of the instance in recognitionRef.current, 0 for null
    restartTimerRef,             \* TRUE while the timer in restartTimerRef.current is pending
    recognitions,                \* every SpeechRecognition instance created so far
    fetches,                     \* surah numbers of the verse fetches in flight
    autoStartTimers,             \* pending setTimeout(..., 100) callbacks of the fetch handler
    sinceErrorSound,             \* Date.now() - lastErrorSoundRef.current, in ticks, capped
    lastCall,                    \* the direct processNewWords call the last step made, if
                                 \* any: input, branch taken, outcomes
    forwarded,                   \* for the instance under observation: the words handed
                                 \* to processNewWords, in order
    evaluation,                  \* a library function applied on its own: its name, its
                                 \* arguments, and its result once it has returned
    endpoint,                    \* a POST request to the check-recitation endpoint: its
                                 \* form, the handler's position, the transcription
                                 \* calls made and the response
    audioRecorder                \* the useAudioRecorder hook: its state and refs, the
                                 \* getUserMedia calls pending, and every stream and
                                 \* MediaRecorder it has created

trackerVars == <<vIdxRef, wIdxRef, revealedSetRef, revealedWords, errorCount,
                 consecutiveMissRef>>
resultVars  == <<lastProcessedFinalIndexRef, interimProcessedCountRef>>
passageVars == <<selectedSurah, versesRef, loadingVerses, normalizedVersesRef, fetches,
                 autoStartTimers>>
recogVars   == <<isListeningRef, recognitionRef, restartTimerRef, recognitions>>
vars == <<selectedSurah, versesRef, loadingVerses, normalizedVersesRef, vIdxRef, wIdxRef,
          revealedSetRef, revealedWords, errorCount, consecutiveMissRef,
          lastProcessedFinalIndexRef, interimProcessedCountRef, isListeningRef,
          recognitionRef, restartTimerRef, recognitions, fetches, autoStartTimers,
          sinceErrorSound, lastCall, forwarded, evaluation, endpoint, audioRecorder>>
\* The state of the page component.
pageVars == <<trackerVars, resultVars, passageVars, recogVars, sinceErrorSound, lastCall,
              forwarded>>

---------------------------------------------------------------------------
(* Bounds of the model. *)

MaxBatch     == 2    \* longest word list handed directly to processNewWords
MaxInstances == 2    \* SpeechRecognition instances created in one run
MaxResults   == 1    \* results one instance produces in a whole session
MaxSegments  == 2    \* results of the instance whose result events are followed alone
MaxAlignWords == 3   \* words of a text handed to compareRecitation
LongVerse    == 40   \* words of the long verse handed to compareRecitation
MaxLength    == 5    \* code units of a string handed to normalizeArabic
MaxTokenLength == 4  \* letters of a token handed to fuzzyMatchArabic
MaxVerses    == 3    \* verses of a one-surah store searched by detectVerse
MaxSpoken    == 2    \* words of a free text handed to detectVerse

---------------------------------------------------------------------------
(* Text helpers: src/lib/quran-data.ts *)

\* JavaScript's \s character class.
IsSpace(c) ==
    \/ c \in {9, 10, 11, 12, 13, 32, 160, 5760, 8232, 8233, 8239, 8287, 12288, 65279}
    \/ c \in 8192..8202

\* The five character classes stripDiacritics deletes.
IsDiacritic(c) ==
    \/ c \in 1611..1631      \* [\u064B-\u065F]
    \/ c \in 1552..1562      \* [\u0610-\u061A]
    \/ c \in 1750..1773      \* [\u06D6-\u06ED]
    \/ c = 1648              \* \u0670
    \/ c \in 1619..1622      \* [\u0653-\u0656]

stripDiacritics(text) == SelectSeq(text, LAMBDA c : ~IsDiacritic(c))

\* letterMappings, in the insertion order Object.entries walks.
letterMappings == <<
    << <<1571, 1604, 1601, 32, 1604, 1575, 1605, 32, 1605, 1610, 1605>>, <<1575, 1604, 1605>> >>,
    << <<1575, 1604, 1601, 32, 1604, 1575, 1605, 32, 1605, 1610, 1605>>, <<1575, 1604, 1605>> >>,
    << <<1571, 1604, 1601, 32, 1604, 1575, 1605, 32, 1605, 1610, 1605, 32, 1589, 1575, 1583>>,
       <<1575, 1604, 1605, 1589>> >>,
    << <<1571, 1604, 1601, 32, 1604, 1575, 1605, 32, 1585, 1575, 1569>>, <<1575, 1604, 1585>> >>,
    << <<1575, 1604, 1601, 32, 1604, 1575, 1605, 32, 1585, 1575, 1569>>, <<1575, 1604, 1585>> >>,
    << <<1571, 1604, 1601, 32, 1604, 1575, 1605, 32, 1605, 1610, 1605, 32, 1585, 1575, 1569>>,
       <<1575, 1604, 1605, 1585>> >>,
    << <<1603, 1575, 1601, 32, 1607, 1575, 32, 1610, 1575, 32, 1593, 1610, 1606, 32, 1589, 1575, 1583>>,
       <<1603, 1607, 1610, 1593, 1589>> >>,
    << <<1591, 1607>>, <<1591, 1607>> >>,
    << <<1591, 1575, 32, 1607, 1575>>, <<1591, 1607>> >>,
    << <<1591, 1575, 1569, 32, 1607, 1575>>, <<1591, 1607>> >>,
    << <<1610, 1575, 32, 1587, 1610, 1606>>, <<1610, 1587>> >>,
    << <<1610, 1575, 32, 1587>>, <<1610, 1587>> >>,
    << <<1589, 1575, 1583>>, <<1589>> >>,
    << <<1581, 1605>>, <<1581, 1605>> >>,
    << <<1581, 1575, 32, 1605, 1610, 1605>>, <<1581, 1605>> >>,
    << <<1581, 1575, 32, 1605, 1610, 1605, 32, 1593, 1610, 1606, 32, 1587, 1610, 1606, 32, 1602, 1575, 1601>>,
       <<1581, 1605, 1593, 1587, 1602>> >>,
    << <<1602, 1575, 1601>>, <<1602>> >>,
    << <<1606, 1608, 1606>>, <<1606>> >> >>

MatchesAt(text, pat, i) ==
    /\ i + Len(pat) - 1 <= Len(text)
    /\ \A k \in 1..Len(pat) : text[i + k - 1] = pat[k]

\* text.replace(new RegExp(pat, 'g'), rep): leftmost non-overlapping matches,
\* one step of the recursion per match.
RECURSIVE ReplaceFrom(_, _, _, _)
ReplaceFrom(text, pat, rep, i) ==
    LET matches == {k \in i..Len(text) : MatchesAt(text, pat, k)}
    IN  IF matches = {} THEN SubSeq(text, i, Len(text))
        ELSE LET k == CHOOSE k \in matches : \A other \in matches : k <= other
             IN  SubSeq(text, i, k - 1) \o rep \o ReplaceFrom(text, pat, rep, k + Len(pat))

ReplaceAll(text, pat, rep) == ReplaceFrom(text, pat, rep, 1)

RECURSIVE ApplyMappings(_, _)
ApplyMappings(text, k) ==
    IF k > Len(letterMappings) THEN text
    ELSE ApplyMappings(ReplaceAll(text, letterMappings[k][1], letterMappings[k][2]), k + 1)

\* The three single-character replacements of normalizeArabic.
FoldLetter(c) ==
    IF c \in {1571, 1573, 1570, 1649} THEN 1575     \* alef variants -> alef
    ELSE IF c = 1609 THEN 1610                       \* alef maqsura -> ya
    ELSE IF c = 1577 THEN 1607                       \* taa marbuta -> haa
    ELSE c

FoldLetters(text) == [i \in 1..Len(text) |-> FoldLetter(text[i])]

\* text.split(/\s+/).filter(Boolean): the maximal runs of non-space characters.
RECURSIVE SplitFrom(_, _)
SplitFrom(text, i) ==
    LET letters == {k \in i..Len(text) : ~IsSpace(text[k])}
    IN  IF letters = {} THEN <<>>
        ELSE LET first  == CHOOSE k \in letters : \A other \in letters : k <= other
                 spaces == {k \in first..Len(text) : IsSpace(text[k])}
                 end    == IF spaces = {} THEN Len(text) + 1
                           ELSE CHOOSE k \in spaces : \A other \in spaces : k <= other
             IN  <<SubSeq(text, first, end - 1)>> \o SplitFrom(text, end)

SplitWords(text) == SplitFrom(text, 1)

\* Keep the first and the last character, drop every alef in between.
RemoveMiddleAlef(word) ==
    IF Len(word) <= 2 THEN word
    ELSE <<word[1]>>
         \o SelectSeq(SubSeq(word, 2, Len(word) - 1), LAMBDA c : c # 1575)
         \o <<word[Len(word)]>>

RECURSIVE JoinWords(_)
JoinWords(ws) ==
    IF ws = <<>> THEN <<>>
    ELSE IF Len(ws) = 1 THEN ws[1]
    ELSE ws[1] \o <<32>> \o JoinWords(Tail(ws))

\* The empty strings split(/\s+/) yields at the ends of the text are removed
\* again by the final collapse-and-trim, so only the real words are kept here.
normalizeArabic(text) ==
    LET folded == FoldLetters(ApplyMappings(stripDiacritics(text), 1))
        words  == SplitWords(folded)
    IN  JoinWords([i \in 1..Len(words) |-> RemoveMiddleAlef(words[i])])

Min3(a, b, c) == LET S == {a, b, c} IN CHOOSE x \in S : \A y \in S : x <= y

\* Levenshtein distance, one row of the table at a time: row[k] is the
\* distance between the first i characters of a and the first k - 1 of b.
RECURSIVE LevRow(_, _, _, _, _)
LevRow(ch, b, prev, j, cur) ==
    IF j > Len(b) THEN cur
    ELSE LevRow(ch, b, prev, j + 1,
             Append(cur, Min3(prev[j + 1] + 1, cur[j] + 1,
                              prev[j] + (IF ch = b[j] THEN 0 ELSE 1))))

RECURSIVE LevRows(_, _, _, _)
LevRows(a, b, i, prev) ==
    IF i > Len(a) THEN prev[Len(b) + 1]
    ELSE LevRows(a, b, i + 1, LevRow(a[i], b, prev, 1, <<i>>))

RECURSIVE Iota(_, _)
Iota(from, to) == IF from > to THEN <<>> ELSE <<from>> \o Iota(from + 1, to)

levenshtein(a, b) == LevRows(a, b, 1, Iota(0, Len(b)))

\* A matcher that would tolerate one edit in tokens of two characters as well.
fuzzyMatchArabicShort(spoken, expected) ==
    \/ spoken = expected
    \/ /\ Len(spoken) >= 2
       /\ Len(expected) >= 2
       /\ levenshtein(spoken, expected) <= 1

fuzzyMatchArabic(spoken, expected) ==
    \/ spoken = expected
    \/ /\ Len(spoken) > 2
       /\ Len(expected) > 2
       /\ levenshtein(spoken, expected) <= 1

---------------------------------------------------------------------------
(* The passage store: the verses /api/verses returns for a surah, with     *)
(* their diacritics.  Two short surahs stand for the 114 of quran.json.    *)

Surahs == {1, 2}

QuranData(surah) ==
    IF surah = 1 THEN
      << [verse |-> 1, text |-> <<1576, 1616, 1587, 1618, 1605, 1616, 32,
                                  1649, 1604, 1604, 1614, 1617, 1607, 1616>>],
         [verse |-> 2, text |-> <<1649, 1604, 1618, 1581, 1614, 1605, 1618, 1583, 1615, 32,
                                  1604, 1616, 1604, 1614, 1617, 1607, 1616, 32,
                                  1585, 1614, 1576, 1616, 1617>>] >>
    ELSE IF surah = 2 THEN
      << [verse |-> 1, text |-> <<1602, 1615, 1604, 1618, 32, 1607, 1615, 1608, 1614, 32,
                                  1649, 1604, 1604, 1614, 1617, 1607, 1615>>],
         [verse |-> 2, text |-> <<1571, 1614, 1581, 1614, 1583, 1612>>] >>
    ELSE <<>>

\* useMemo normalizedVerses (originalWords only feed the display).
NormalizedVerses(vs) ==
    [i \in 1..Len(vs) |->
        [verse |-> vs[i].verse,
         normalizedWords |-> SplitWords(normalizeArabic(vs[i].text))]]

\* The normalized verses of every surah of the store, computed once.
NormalizedQuran == [surah \in Surahs \cup {0} |-> NormalizedVerses(QuranData(surah))]

\* useMemo totalWords: the words of the verses as fetched.  No text of the
\* store starts or ends with white space, so split(/\s+/) yields its words.
RECURSIVE totalWords(_)
totalWords(vs) ==
    IF vs = <<>> THEN 0 ELSE Len(SplitWords(vs[1].text)) + totalWords(Tail(vs))

\* totalWords of every verse list the page can hold, computed once.
TotalWordsOf == [vs \in {QuranData(surah) : surah \in Surahs \cup {0}} |-> totalWords(vs)]

---------------------------------------------------------------------------
(* processNewWords: src/unnamed/part_002 lines 222-466 *)

windowSize    == 10
missThreshold == 3

Key(verse, wIdx) == <<verse, wIdx>>

WordCount(nv, v) == Len(nv[v + 1].normalizedWords)

WordAt(nv, v, w) == nv[v + 1].normalizedWords[w + 1]

WordStatus(nv, v, w, ok) ==
    [verseNumber |-> nv[v + 1].verse, wordIndex |-> w, isCorrect |-> ok]

\* A sequential loop that passes over a spoken word that does not match,
\* without revealing the expected word.
RECURSIVE SequentialLoopCorrectOnly(_, _, _)
SequentialLoopCorrectOnly(nv, spokenWords, st) ==
    IF ~(st.v < Len(nv) /\ st.si < Len(spokenWords)) THEN st
    ELSE IF st.w >= WordCount(nv, st.v)
         THEN SequentialLoopCorrectOnly(nv, spokenWords, [st EXCEPT !.v = @ + 1, !.w = 0])
    ELSE IF Key(nv[st.v + 1].verse, st.w) \in st.revealed
         THEN SequentialLoopCorrectOnly(nv, spokenWords, [st EXCEPT !.w = @ + 1])
    ELSE IF ~fuzzyMatchArabic(spokenWords[st.si + 1], WordAt(nv, st.v, st.w))
         THEN SequentialLoopCorrectOnly(nv, spokenWords, [st EXCEPT !.si = @ + 1])
    ELSE SequentialLoopCorrectOnly(nv, spokenWords,
             [st EXCEPT !.reveals  = Append(@, WordStatus(nv, st.v, st.w, TRUE)),
                        !.revealed = @ \cup {Key(nv[st.v + 1].verse, st.w)},
                        !.w        = @ + 1,
                        !.si       = @ + 1])

\* The while loop of the sequential branch.  st carries vIdx, wIdx,
\* spokenIdx, the revealed set, newReveals, newErrors and the number of
\* playErrorSound calls.
RECURSIVE SequentialLoop(_, _, _)
SequentialLoop(nv, spokenWords, st) ==
    IF ~(st.v < Len(nv) /\ st.si < Len(spokenWords)) THEN st
    ELSE IF st.w >= WordCount(nv, st.v)
         THEN SequentialLoop(nv, spokenWords, [st EXCEPT !.v = @ + 1, !.w = 0])
    ELSE IF Key(nv[st.v + 1].verse, st.w) \in st.revealed
         THEN SequentialLoop(nv, spokenWords, [st EXCEPT !.w = @ + 1])
    ELSE LET isCorrect == fuzzyMatchArabic(spokenWords[st.si + 1], WordAt(nv, st.v, st.w))
         IN  SequentialLoop(nv, spokenWords,
                 [st EXCEPT !.reveals  = Append(@, WordStatus(nv, st.v, st.w, isCorrect)),
                            !.errors   = IF isCorrect THEN @ ELSE @ + 1,
                            !.sounds   = IF isCorrect THEN @ ELSE @ + 1,
                            !.revealed = @ \cup {Key(nv[st.v + 1].verse, st.w)},
                            !.w        = @ + 1,
                            !.si       = @ + 1])

\* The window search of the resynchronization branch: i counts loop
\* iterations, a verse boundary uses one up.
RECURSIVE SearchLoop(_, _, _, _, _)
SearchLoop(nv, firstWord, i, searchV, searchW) ==
    IF ~(i < windowSize /\ searchV < Len(nv))
    THEN [foundPosition |-> -1, foundV |-> -1, foundW |-> -1]
    ELSE IF searchW >= WordCount(nv, searchV)
         THEN SearchLoop(nv, firstWord, i + 1, searchV + 1, 0)
    ELSE IF fuzzyMatchArabic(firstWord, WordAt(nv, searchV, searchW))
         THEN [foundPosition |-> i, foundV |-> searchV, foundW |-> searchW]
    ELSE SearchLoop(nv, firstWord, i + 1, searchV, searchW + 1)

\* SkipLoop with the verse boundary not counted as an iteration: one word
\* too many is marked as skipped whenever the match lies in a later verse.
RECURSIVE SkipLoopBoundaryFree(_, _, _, _)
SkipLoopBoundaryFree(nv, foundPosition, i, st) ==
    IF ~(i < foundPosition) THEN st
    ELSE IF st.w >= WordCount(nv, st.v)
         THEN SkipLoopBoundaryFree(nv, foundPosition, i, [st EXCEPT !.v = @ + 1, !.w = 0])
    ELSE IF Key(nv[st.v + 1].verse, st.w) \notin st.revealed
         THEN SkipLoopBoundaryFree(nv, foundPosition, i + 1,
                 [st EXCEPT !.reveals  = Append(@, WordStatus(nv, st.v, st.w, FALSE)),
                            !.revealed = @ \cup {Key(nv[st.v + 1].verse, st.w)},
                            !.w        = @ + 1])
    ELSE SkipLoopBoundaryFree(nv, foundPosition, i + 1, [st EXCEPT !.w = @ + 1])

\* Marking the words before the match as skipped.
RECURSIVE SkipLoop(_, _, _, _)
SkipLoop(nv, foundPosition, i, st) ==
    IF ~(i < foundPosition) THEN st
    ELSE IF st.w >= WordCount(nv, st.v)
         THEN SkipLoop(nv, foundPosition, i + 1, [st EXCEPT !.v = @ + 1, !.w = 0])
    ELSE IF Key(nv[st.v + 1].verse, st.w) \notin st.revealed
         THEN SkipLoop(nv, foundPosition, i + 1,
                 [st EXCEPT !.reveals  = Append(@, WordStatus(nv, st.v, st.w, FALSE)),
                            !.revealed = @ \cup {Key(nv[st.v + 1].verse, st.w)},
                            !.w        = @ + 1])
    ELSE SkipLoop(nv, foundPosition, i + 1, [st EXCEPT !.w = @ + 1])

\* The while loop that judges the spoken words from the match on.
RECURSIVE MatchLoop(_, _, _)
MatchLoop(nv, spokenWords, st) ==
    IF ~(st.v < Len(nv) /\ st.si < Len(spokenWords)) THEN st
    ELSE IF st.w >= WordCount(nv, st.v)
         THEN MatchLoop(nv, spokenWords, [st EXCEPT !.v = @ + 1, !.w = 0])
    ELSE IF Key(nv[st.v + 1].verse, st.w) \in st.revealed
         THEN MatchLoop(nv, spokenWords, [st EXCEPT !.w = @ + 1])
    ELSE LET isCorrect == fuzzyMatchArabic(spokenWords[st.si + 1], WordAt(nv, st.v, st.w))
         IN  MatchLoop(nv, spokenWords,
                 [st EXCEPT !.reveals  = Append(@, WordStatus(nv, st.v, st.w, isCorrect)),
                            !.errors   = IF isCorrect THEN @ ELSE @ + 1,
                            !.sounds   = IF isCorrect THEN @ ELSE @ + 1,
                            !.revealed = @ \cup {Key(nv[st.v + 1].verse, st.w)},
                            !.w        = @ + 1,
                            !.si       = @ + 1])

\* ResolveCursor starting again at the first verse when the cursor is past
\* the last one.
ResolveCursorWrapping(nv, vIdx, wIdx) ==
    IF vIdx >= Len(nv) THEN [v |-> 0, w |-> 0]
    ELSE IF wIdx >= WordCount(nv, vIdx)
         THEN [v |-> IF vIdx + 1 >= Len(nv) THEN 0 ELSE vIdx + 1, w |-> 0]
    ELSE [v |-> vIdx, w |-> wIdx]

\* The cursor the call works from: a cursor left at the end of a verse moves
\* to the start of the next one, once.  v = Len(nv) stands for "return".
ResolveCursor(nv, vIdx, wIdx) ==
    IF vIdx >= Len(nv) THEN [v |-> Len(nv), w |-> 0]
    ELSE IF wIdx >= WordCount(nv, vIdx) THEN [v |-> vIdx + 1, w |-> 0]
    ELSE [v |-> vIdx, w |-> wIdx]

LoopState(t, v, w) ==
    [v |-> v, w |-> w, si |-> 0, revealed |-> t.revealed,
     reveals |-> <<>>, errors |-> 0, sounds |-> 0]

\* SequentialBranch appending its outcomes without storing the cursor and
\* the revealed set the loop worked on.
SequentialBranchForgetful(nv, t, vIdx, wIdx, spokenWords) ==
    LET st == SequentialLoop(nv, spokenWords, LoopState(t, vIdx, wIdx))
    IN  IF Len(st.reveals) > 0
        THEN [t EXCEPT !.miss = 0,
                       !.words = @ \o st.reveals,
                       !.errors = @ + st.errors,
                       !.branch = "sequential", !.reveals = st.reveals,
                       !.sounds = st.sounds]
        ELSE [t EXCEPT !.branch = "sequential"]

\* SequentialBranch leaving the miss counter as it is.
SequentialBranchKeepsMisses(nv, t, vIdx, wIdx, spokenWords) ==
    LET st == SequentialLoop(nv, spokenWords, LoopState(t, vIdx, wIdx))
    IN  IF Len(st.reveals) > 0
        THEN [t EXCEPT !.vIdx = st.v, !.wIdx = st.w,
                       !.revealed = st.revealed,
                       !.words = @ \o st.reveals,
                       !.errors = @ + st.errors,
                       !.branch = "sequential", !.reveals = st.reveals,
                       !.sounds = st.sounds]
        ELSE [t EXCEPT !.branch = "sequential"]

SequentialBranch(nv, t, vIdx, wIdx, spokenWords) ==
    LET st == SequentialLoop(nv, spokenWords, LoopState(t, vIdx, wIdx))
    IN  IF Len(st.reveals) > 0
        THEN [t EXCEPT !.miss = 0, !.vIdx = st.v, !.wIdx = st.w,
                       !.revealed = st.revealed,
                       !.words = @ \o st.reveals,
                       !.errors = @ + st.errors,
                       !.branch = "sequential", !.reveals = st.reveals,
                       !.sounds = st.sounds]
        ELSE [t EXCEPT !.branch = "sequential"]

\* ResyncBranch storing its outcomes in place of the list, not at its end.
ResyncBranchOverwriting(nv, t, vIdx, wIdx, found, spokenWords) ==
    LET skipped == SkipLoop(nv, found.foundPosition, 0, LoopState(t, vIdx, wIdx))
        matched == MatchLoop(nv, spokenWords,
                       [LoopState(t, found.foundV, found.foundW)
                            EXCEPT !.revealed = skipped.revealed])
        allReveals == skipped.reveals \o matched.reveals
        sounds == (IF Len(skipped.reveals) > 0 THEN 1 ELSE 0) + matched.sounds
    IN  IF Len(allReveals) > 0
        THEN [t EXCEPT !.miss = 0, !.vIdx = matched.v, !.wIdx = matched.w,
                       !.revealed = matched.revealed,
                       !.words = allReveals,
                       !.errors = @ + Len(skipped.reveals) + matched.errors,
                       !.branch = "resync", !.reveals = allReveals,
                       !.sounds = sounds]
        ELSE [t EXCEPT !.revealed = matched.revealed, !.branch = "resync",
                       !.sounds = sounds]

\* ResyncBranch counting the wrong words of the match loop only, not the
\* skipped ones.
ResyncBranchSkipsUncounted(nv, t, vIdx, wIdx, found, spokenWords) ==
    LET skipped == SkipLoop(nv, found.foundPosition, 0, LoopState(t, vIdx, wIdx))
        matched == MatchLoop(nv, spokenWords,
                       [LoopState(t, found.foundV, found.foundW)
                            EXCEPT !.revealed = skipped.revealed])
        allReveals == skipped.reveals \o matched.reveals
        sounds == (IF Len(skipped.reveals) > 0 THEN 1 ELSE 0) + matched.sounds
    IN  IF Len(allReveals) > 0
        THEN [t EXCEPT !.miss = 0, !.vIdx = matched.v, !.wIdx = matched.w,
                       !.revealed = matched.revealed,
                       !.words = @ \o allReveals,
                       !.errors = @ + matched.errors,
                       !.branch = "resync", !.reveals = allReveals,
                       !.sounds = sounds]
        ELSE [t EXCEPT !.revealed = matched.revealed, !.branch = "resync",
                       !.sounds = sounds]

ResyncBranch(nv, t, vIdx, wIdx, found, spokenWords) ==
    LET skipped == SkipLoop(nv, found.foundPosition, 0, LoopState(t, vIdx, wIdx))
        matched == MatchLoop(nv, spokenWords,
                       [LoopState(t, found.foundV, found.foundW)
                            EXCEPT !.revealed = skipped.revealed])
        allReveals == skipped.reveals \o matched.reveals
        sounds == (IF Len(skipped.reveals) > 0 THEN 1 ELSE 0) + matched.sounds
    IN  IF Len(allReveals) > 0
        THEN [t EXCEPT !.miss = 0, !.vIdx = matched.v, !.wIdx = matched.w,
                       !.revealed = matched.revealed,
                       !.words = @ \o allReveals,
                       !.errors = @ + Len(skipped.reveals) + matched.errors,
                       !.branch = "resync", !.reveals = allReveals,
                       !.sounds = sounds]
        ELSE [t EXCEPT !.revealed = matched.revealed, !.branch = "resync",
                       !.sounds = sounds]

\* NoMatchBranch forgetting the verse increment at a verse end.
NoMatchBranchSameVerse(nv, t, vIdx, wIdx) ==
    LET key == Key(nv[vIdx + 1].verse, wIdx)
        atEnd == wIdx + 1 >= WordCount(nv, vIdx)
    IN  IF t.miss + 1 >= missThreshold
        THEN IF key \notin t.revealed
             THEN [t EXCEPT !.miss = 0,
                            !.revealed = @ \cup {key},
                            !.vIdx = vIdx,
                            !.wIdx = IF atEnd THEN 0 ELSE wIdx + 1,
                            !.words = Append(@, WordStatus(nv, vIdx, wIdx, FALSE)),
                            !.errors = @ + 1,
                            !.branch = "force",
                            !.reveals = <<WordStatus(nv, vIdx, wIdx, FALSE)>>,
                            !.sounds = 1]
             ELSE [t EXCEPT !.miss = 0, !.branch = "force", !.sounds = 1]
        ELSE [t EXCEPT !.miss = @ + 1, !.branch = "miss", !.sounds = 1]

\* NoMatchBranch with the threshold compared by > instead of >=.
NoMatchBranchLate(nv, t, vIdx, wIdx) ==
    LET key == Key(nv[vIdx + 1].verse, wIdx)
        atEnd == wIdx + 1 >= WordCount(nv, vIdx)
    IN  IF t.miss + 1 > missThreshold
        THEN [t EXCEPT !.miss = 0,
                       !.revealed = @ \cup {key},
                       !.vIdx = IF atEnd THEN vIdx + 1 ELSE vIdx,
                       !.wIdx = IF atEnd THEN 0 ELSE wIdx + 1,
                       !.words = Append(@, WordStatus(nv, vIdx, wIdx, FALSE)),
                       !.errors = @ + 1,
                       !.branch = "force",
                       !.reveals = <<WordStatus(nv, vIdx, wIdx, FALSE)>>,
                       !.sounds = 1]
        ELSE [t EXCEPT !.miss = @ + 1,
                       !.branch = IF t.miss + 1 >= missThreshold THEN "force" ELSE "miss",
                       !.sounds = 1]

\* NoMatchBranch counting every unmatched batch as an error.
NoMatchBranchCounting(nv, t, vIdx, wIdx) ==
    LET key == Key(nv[vIdx + 1].verse, wIdx)
        atEnd == wIdx + 1 >= WordCount(nv, vIdx)
    IN  IF t.miss + 1 >= missThreshold
        THEN [t EXCEPT !.miss = 0,
                       !.revealed = @ \cup {key},
                       !.vIdx = IF atEnd THEN vIdx + 1 ELSE vIdx,
                       !.wIdx = IF atEnd THEN 0 ELSE wIdx + 1,
                       !.words = Append(@, WordStatus(nv, vIdx, wIdx, FALSE)),
                       !.errors = @ + 1,
                       !.branch = "force",
                       !.reveals = <<WordStatus(nv, vIdx, wIdx, FALSE)>>,
                       !.sounds = 1]
        ELSE [t EXCEPT !.miss = @ + 1, !.errors = @ + 1, !.branch = "miss", !.sounds = 1]

\* No match in the window: count the miss, and on the third one in a row
\* reveal the expected word as incorrect.
NoMatchBranch(nv, t, vIdx, wIdx) ==
    LET key == Key(nv[vIdx + 1].verse, wIdx)
        atEnd == wIdx + 1 >= WordCount(nv, vIdx)
    IN  IF t.miss + 1 >= missThreshold
        THEN IF key \notin t.revealed
             THEN [t EXCEPT !.miss = 0,
                            !.revealed = @ \cup {key},
                            !.vIdx = IF atEnd THEN vIdx + 1 ELSE vIdx,
                            !.wIdx = IF atEnd THEN 0 ELSE wIdx + 1,
                            !.words = Append(@, WordStatus(nv, vIdx, wIdx, FALSE)),
                            !.errors = @ + 1,
                            !.branch = "force",
                            !.reveals = <<WordStatus(nv, vIdx, wIdx, FALSE)>>,
                            !.sounds = 1]
             ELSE [t EXCEPT !.miss = 0, !.branch = "force", !.sounds = 1]
        ELSE [t EXCEPT !.miss = @ + 1, !.branch = "miss", !.sounds = 1]

\* processNewWords without the test for an empty word list: the undefined
\* first word matches nothing, so the call counts as an unmatched batch.
processNewWordsUnguarded(nv, t0, spokenWords) ==
    LET t == [t0 EXCEPT !.branch = "return", !.reveals = <<>>, !.sounds = 0]
        c == ResolveCursor(nv, t.vIdx, t.wIdx)
    IN  IF Len(nv) = 0 THEN t
        ELSE IF c.v >= Len(nv) THEN t
        ELSE IF Len(spokenWords) = 0 THEN NoMatchBranch(nv, t, c.v, c.w)
        ELSE IF fuzzyMatchArabic(spokenWords[1], WordAt(nv, c.v, c.w))
             THEN SequentialBranch(nv, t, c.v, c.w, spokenWords)
        ELSE LET found == SearchLoop(nv, spokenWords[1], 0, c.v, c.w)
             IN  IF found.foundPosition >= 0
                 THEN ResyncBranch(nv, t, c.v, c.w, found, spokenWords)
                 ELSE NoMatchBranch(nv, t, c.v, c.w)

processNewWords(nv, t0, spokenWords) ==
    LET t == [t0 EXCEPT !.branch = "return", !.reveals = <<>>, !.sounds = 0]
        c == ResolveCursor(nv, t.vIdx, t.wIdx)
    IN  IF Len(nv) = 0 \/ Len(spokenWords) = 0 THEN t
        ELSE IF c.v >= Len(nv) THEN t
        ELSE IF fuzzyMatchArabic(spokenWords[1], WordAt(nv, c.v, c.w))
             THEN SequentialBranch(nv, t, c.v, c.w, spokenWords)
        ELSE LET found == SearchLoop(nv, spokenWords[1], 0, c.v, c.w)
             IN  IF found.foundPosition >= 0
                 THEN ResyncBranch(nv, t, c.v, c.w, found, spokenWords)
                 ELSE NoMatchBranch(nv, t, c.v, c.w)

\* playErrorSound, called `calls` times within one handler: only a call made
\* soundWindow ticks or more after the last emitted sound emits one and
\* restarts the window.
soundWindow == 3

playErrorSound(since, calls) ==
    IF calls > 0 /\ since >= soundWindow THEN 0 ELSE since

---------------------------------------------------------------------------
(* State of the component *)

Tracker ==
    [vIdx |-> vIdxRef, wIdx |-> wIdxRef, revealed |-> revealedSetRef,
     words |-> revealedWords, errors |-> errorCount, miss |-> consecutiveMissRef,
     branch |-> "return", reveals |-> <<>>, sounds |-> 0]

SetTracker(t) ==
    /\ vIdxRef' = t.vIdx
    /\ wIdxRef' = t.wIdx
    /\ revealedSetRef' = t.revealed
    /\ revealedWords' = t.words
    /\ errorCount' = t.errors
    /\ consecutiveMissRef' = t.miss

NoCall == [spokenWords |-> <<>>, branch |-> "none", reveals |-> <<>>]

\* No library function is being evaluated on its own.
\* No request to the check-recitation endpoint.
NoRequest == [pc |-> "none"]

\* The hook is not mounted.
NoRecorder == [status |-> "unmounted"]

NoEvaluation == [fn |-> "none", args |-> <<>>, done |-> FALSE, result |-> <<>>]

\* The page as first rendered: no surah chosen, nothing revealed, no recogniser.
FirstRender ==
    /\ selectedSurah = 0
    /\ versesRef = <<>>
    /\ loadingVerses = FALSE
    /\ normalizedVersesRef = <<>>
    /\ vIdxRef = 0
    /\ wIdxRef = 0
    /\ revealedSetRef = {}
    /\ revealedWords = <<>>
    /\ errorCount = 0
    /\ consecutiveMissRef = 0
    /\ lastProcessedFinalIndexRef = 0
    /\ interimProcessedCountRef = 0
    /\ isListeningRef = FALSE
    /\ recognitionRef = 0
    /\ restartTimerRef = FALSE
    /\ recognitions = <<>>
    /\ fetches = {}
    /\ autoStartTimers = 0
    /\ sinceErrorSound = soundWindow
    /\ lastCall = NoCall
    /\ forwarded = <<>>

Init ==
    /\ FirstRender
    /\ evaluation = NoEvaluation
    /\ endpoint = NoRequest
    /\ audioRecorder = NoRecorder

---------------------------------------------------------------------------
(* Handlers *)

\* The completion overlay replaces the control bar once every word is shown.
isComplete ==
    /\ TotalWordsOf[versesRef] > 0
    /\ Len(revealedWords) >= TotalWordsOf[versesRef]

\* The control bar with the reset and the microphone buttons is rendered.
ControlBar == selectedSurah # 0 /\ ~loadingVerses /\ ~isComplete

\* recognition.stop() with onend detached: the engine may still deliver the
\* results of the audio it has, the end event finds no handler.  `stale`
\* marks the instance that was the active one when handleReset ran.
Stopped(r) == [r EXCEPT !.status = IF @ = "ended" THEN @ ELSE "stopping",
                        !.onend = FALSE]

\* handleReset: src/unnamed/part_002 lines 592-618, from the reset button of
\* the control bar or of the completion overlay.
HandleReset ==
    /\ ControlBar \/ isComplete
    /\ recognitions' =
           [i \in 1..Len(recognitions) |->
               IF i = recognitionRef
               THEN [Stopped(recognitions[i]) EXCEPT !.stale = TRUE]
               ELSE recognitions[i]]
    /\ recognitionRef' = 0
    /\ isListeningRef' = FALSE
    /\ vIdxRef' = 0
    /\ wIdxRef' = 0
    /\ revealedSetRef' = {}
    /\ revealedWords' = <<>>
    /\ errorCount' = 0
    /\ lastProcessedFinalIndexRef' = 0
    /\ consecutiveMissRef' = 0
    /\ interimProcessedCountRef' = 0
    /\ restartTimerRef' = FALSE
    /\ lastCall' = NoCall
    /\ UNCHANGED <<passageVars, sinceErrorSound, forwarded, evaluation, endpoint, audioRecorder>>

---------------------------------------------------------------------------
(* Speech recognition: src/unnamed/part_002 lines 468-590 *)

\* What the recogniser hears: the raw text a result grows towards, word by
\* word.  A result shows the first `shown` words of its utterance.
Utterances ==
    << <<1576, 1616, 1587, 1618, 1605, 32, 1575, 1604, 1604, 1607>>,   \* bism allh
       <<1585, 1614, 1576, 1617, 32, 1603, 1578, 1576>> >>             \* rabb ktb

UtteranceWords(u) == SplitWords(Utterances[u])

Transcript(result) == JoinWords(SubSeq(UtteranceWords(result.utt), 1, result.shown))

\* normalizeArabic(transcript).split(/\s+/).filter(Boolean) of every transcript
\* a result can show, computed once.
NormalizedSpoken ==
    [u \in 1..Len(Utterances) |->
        [k \in 0..Len(UtteranceWords(u)) |->
            SplitWords(normalizeArabic(JoinWords(SubSeq(UtteranceWords(u), 1, k))))]]

SpokenWords(result) == NormalizedSpoken[result.utt][result.shown]

Slice(ws, from, to) == SubSeq(ws, from + 1, to)

\* One processNewWords call made by the result handler, with its bookkeeping.
Forward(nv, st, newWords) ==
    LET t == processNewWords(nv, st.t, newWords)
    IN  [st EXCEPT !.t = t,
                   !.sounds = @ + t.sounds,
                   !.batches = Append(@, newWords)]

\* The loop over the final results, from lastProcessedFinalIndexRef on.
RECURSIVE FinalLoop(_, _, _, _)
FinalLoop(nv, results, i, st) ==
    IF ~(i < Len(results)) THEN st
    ELSE IF ~results[i + 1].isFinal THEN FinalLoop(nv, results, i + 1, st)
    ELSE IF Transcript(results[i + 1]) = <<>>
         THEN FinalLoop(nv, results, i + 1, [st EXCEPT !.lpf = i + 1, !.ipc = 0])
    ELSE LET words == SpokenWords(results[i + 1])
             alreadyProcessed == st.ipc
             st1 == [st EXCEPT !.ipc = 0]
             st2 == IF Len(words) > alreadyProcessed
                    THEN Forward(nv, st1, Slice(words, alreadyProcessed, Len(words)))
                    ELSE st1
         IN  FinalLoop(nv, results, i + 1, [st2 EXCEPT !.lpf = i + 1])

\* The interim part: the words of the latest result but the last one.
InterimPart(nv, results, st) ==
    LET latestResult == results[Len(results)]
        words == SpokenWords(latestResult)
        stableWordCount == IF Len(words) - 1 > 0 THEN Len(words) - 1 ELSE 0
    IN  IF latestResult.isFinal \/ Transcript(latestResult) = <<>> THEN st
        ELSE IF stableWordCount > st.ipc
             THEN [Forward(nv, st, Slice(words, st.ipc, stableWordCount))
                       EXCEPT !.ipc = stableWordCount]
             ELSE st

\* recognition.onresult for an event carrying `results`.
onresult(nv, results, t, lpf, ipc) ==
    InterimPart(nv, results,
        FinalLoop(nv, results, lpf,
            [t |-> t, lpf |-> lpf, ipc |-> ipc, sounds |-> 0, batches |-> <<>>]))

\* The ways the engine changes the result list before it fires the event:
\* a new interim result, one more word in an interim result, or the first
\* result not yet final becomes final with its whole utterance.
NewResults(r, maxResults) ==
    LET results == r.results
        open == {k \in 1..Len(results) : ~results[k].isFinal}
        firstOpen == CHOOSE k \in open : \A j \in open : k <= j
    IN  (IF r.status = "started" /\ Len(results) < maxResults
         THEN {Append(results, [utt |-> u, shown |-> 1, isFinal |-> FALSE]) :
                   u \in 1..Len(Utterances)}
         ELSE {})
        \cup
        (IF r.status = "started"
         THEN {[results EXCEPT ![k].shown = @ + 1] :
                   k \in {j \in open : results[j].shown < Len(UtteranceWords(results[j].utt))}}
         ELSE {})
        \cup
        (IF open # {}
         THEN {[results EXCEPT ![firstOpen].isFinal = TRUE,
                               ![firstOpen].shown = Len(UtteranceWords(results[firstOpen].utt))]}
         ELSE {})

RECURSIVE Flatten(_)
Flatten(batches) ==
    IF batches = <<>> THEN <<>> ELSE Head(batches) \o Flatten(Tail(batches))

\* A result event of instance i.  The handler stays attached after stop().
ResultEvent(i, maxResults, observed) ==
    /\ i \in 1..Len(recognitions)
    /\ recognitions[i].status \in {"started", "stopping"}
    /\ \E results \in NewResults(recognitions[i], maxResults) :
         \E st \in {onresult(normalizedVersesRef, results, Tracker,
                             lastProcessedFinalIndexRef, interimProcessedCountRef)} :
            /\ recognitions' = [recognitions EXCEPT ![i].results = results]
            /\ SetTracker(st.t)
            /\ lastProcessedFinalIndexRef' = st.lpf
            /\ interimProcessedCountRef' = st.ipc
            /\ sinceErrorSound' = playErrorSound(sinceErrorSound, st.sounds)
            /\ forwarded' = IF observed THEN forwarded \o Flatten(st.batches)
                            ELSE forwarded
    /\ lastCall' = NoCall
    /\ UNCHANGED <<passageVars, isListeningRef, recognitionRef, restartTimerRef,
                   evaluation, endpoint, audioRecorder>>

OnResult(i) == ResultEvent(i, MaxResults, FALSE)

\* startRecording; the number of instances of a run is bounded.
CanStartUpTo(maxInstances) == Len(recognitions) < maxInstances

CanStart == CanStartUpTo(MaxInstances)

StartRecording ==
    /\ lastProcessedFinalIndexRef' = 0
    /\ recognitions' = Append(recognitions,
                              [status |-> "started", onend |-> TRUE, results |-> <<>>,
                               stale |-> FALSE])
    /\ recognitionRef' = Len(recognitions) + 1
    /\ isListeningRef' = TRUE

\* toggleListening: src/unnamed/part_002 lines 577-590
ToggleListeningUpTo(maxInstances) ==
    /\ ControlBar
    /\ IF isListeningRef
       THEN /\ restartTimerRef' = FALSE
            /\ recognitions' = [i \in 1..Len(recognitions) |->
                                   IF i = recognitionRef THEN Stopped(recognitions[i])
                                   ELSE recognitions[i]]
            /\ recognitionRef' = 0
            /\ isListeningRef' = FALSE
            /\ UNCHANGED lastProcessedFinalIndexRef
       ELSE /\ CanStartUpTo(maxInstances)
            /\ StartRecording
            /\ UNCHANGED restartTimerRef
    /\ lastCall' = NoCall
    /\ UNCHANGED <<trackerVars, interimProcessedCountRef, passageVars, sinceErrorSound,
                   forwarded, evaluation, endpoint, audioRecorder>>

ToggleListening == ToggleListeningUpTo(MaxInstances)

\* The errors a recogniser reports.
Errors == {"aborted", "no-speech", "network"}

\* The error event, src/unnamed/part_002 lines 550-559: the engine gives up
\* (no more results, the end event follows) and onerror, which no handler
\* ever detaches, schedules the debounced restart.
OnError(i, error) ==
    /\ i \in 1..Len(recognitions)
    /\ recognitions[i].status \in {"started", "stopping"}
    /\ error \in Errors
    /\ recognitions' = [recognitions EXCEPT ![i].status = "failed"]
    /\ restartTimerRef' =
           IF error # "aborted" /\ isListeningRef THEN TRUE ELSE restartTimerRef
    /\ lastCall' = NoCall
    /\ UNCHANGED <<trackerVars, resultVars, passageVars, isListeningRef, recognitionRef,
                   sinceErrorSound, forwarded, evaluation, endpoint, audioRecorder>>

\* The end event: the engine stops by itself, or finishes after stop().
\* onend, if still attached, schedules the debounced restart.
OnEnd(i) ==
    /\ i \in 1..Len(recognitions)
    /\ recognitions[i].status \in {"started", "stopping", "failed"}
    /\ recognitions' = [recognitions EXCEPT ![i].status = "ended"]
    /\ restartTimerRef' =
           IF recognitions[i].onend /\ isListeningRef /\ Len(versesRef) > 0
           THEN TRUE ELSE restartTimerRef
    /\ lastCall' = NoCall
    /\ UNCHANGED <<trackerVars, resultVars, passageVars, isListeningRef, recognitionRef,
                   sinceErrorSound, forwarded, evaluation, endpoint, audioRecorder>>

\* The restart timer fires.
RestartTimerUpTo(maxInstances) ==
    /\ restartTimerRef
    /\ restartTimerRef' = FALSE
    /\ IF isListeningRef
       THEN CanStartUpTo(maxInstances) /\ StartRecording
       ELSE UNCHANGED <<lastProcessedFinalIndexRef, recognitions,
                        recognitionRef, isListeningRef>>
    /\ lastCall' = NoCall
    /\ UNCHANGED <<trackerVars, interimProcessedCountRef, passageVars, sinceErrorSound,
                   forwarded, evaluation, endpoint, audioRecorder>>

RestartTimer == RestartTimerUpTo(MaxInstances)

---------------------------------------------------------------------------
(* Choosing a surah: src/unnamed/part_002 lines 123-168 *)

MaxTimers == 1

\* A click on a surah of the list: the effect resets the tracker and starts
\* the fetch.  Recognition is left running.
SelectSurah(n) ==
    /\ n \in Surahs
    /\ n # selectedSurah
    /\ selectedSurah' = n
    /\ vIdxRef' = 0
    /\ wIdxRef' = 0
    /\ revealedSetRef' = {}
    /\ revealedWords' = <<>>
    /\ errorCount' = 0
    /\ lastProcessedFinalIndexRef' = 0
    /\ consecutiveMissRef' = 0
    /\ interimProcessedCountRef' = 0
    /\ restartTimerRef' = FALSE
    /\ fetches' = fetches \cup {n}
    /\ loadingVerses' = TRUE
    /\ lastCall' = NoCall
    /\ UNCHANGED <<versesRef, normalizedVersesRef, autoStartTimers, isListeningRef,
                   recognitionRef, recognitions, sinceErrorSound, forwarded, evaluation, endpoint, audioRecorder>>

\* The fetch of surah n answers: the verses are stored, the automatic start
\* is scheduled, and the render that follows runs the effect that copies the
\* normalized verses into normalizedVersesRef.
FetchDone(n) ==
    /\ n \in fetches
    /\ autoStartTimers < MaxTimers
    /\ fetches' = fetches \ {n}
    /\ versesRef' = QuranData(n)
    /\ loadingVerses' = FALSE
    /\ normalizedVersesRef' = NormalizedQuran[n]
    /\ autoStartTimers' = autoStartTimers + 1
    /\ lastCall' = NoCall
    /\ UNCHANGED <<selectedSurah, trackerVars, resultVars, recogVars,
                   sinceErrorSound, forwarded, evaluation, endpoint, audioRecorder>>

\* The 100 ms timer of the fetch handler.
AutoStartTimer ==
    /\ autoStartTimers > 0
    /\ autoStartTimers' = autoStartTimers - 1
    /\ IF ~isListeningRef
       THEN CanStart /\ StartRecording
       ELSE UNCHANGED <<lastProcessedFinalIndexRef, recognitions,
                        recognitionRef, isListeningRef>>
    /\ lastCall' = NoCall
    /\ UNCHANGED <<selectedSurah, versesRef, loadingVerses, normalizedVersesRef, fetches,
                   trackerVars, interimProcessedCountRef, restartTimerRef, sinceErrorSound, forwarded, evaluation, endpoint, audioRecorder>>

\* The back button of the completion overlay: handleReset(), then
\* setSelectedSurah(null) and its effect.
BackToList ==
    /\ isComplete
    /\ recognitions' =
           [i \in 1..Len(recognitions) |->
               IF i = recognitionRef
               THEN [Stopped(recognitions[i]) EXCEPT !.stale = TRUE]
               ELSE recognitions[i]]
    /\ recognitionRef' = 0
    /\ isListeningRef' = FALSE
    /\ vIdxRef' = 0
    /\ wIdxRef' = 0
    /\ revealedSetRef' = {}
    /\ revealedWords' = <<>>
    /\ errorCount' = 0
    /\ lastProcessedFinalIndexRef' = 0
    /\ consecutiveMissRef' = 0
    /\ interimProcessedCountRef' = 0
    /\ restartTimerRef' = FALSE
    /\ selectedSurah' = 0
    /\ versesRef' = <<>>
    /\ normalizedVersesRef' = <<>>
    /\ lastCall' = NoCall
    /\ UNCHANGED <<loadingVerses, fetches, autoStartTimers, sinceErrorSound, forwarded, evaluation, endpoint, audioRecorder>>

Next ==
    \/ \E n \in Surahs : SelectSurah(n)
    \/ \E n \in Surahs : FetchDone(n)
    \/ AutoStartTimer
    \/ ToggleListening
    \/ \E i \in 1..MaxInstances : OnResult(i)
    \/ \E i \in 1..MaxInstances : OnEnd(i)
    \/ RestartTimer
    \/ HandleReset
    \/ BackToList

Spec == Init /\ [][Next]_vars

---------------------------------------------------------------------------
(* The tracker alone: processNewWords called with any word list *)

\* Normalized words a recogniser may hand over: words of the two surahs, a
\* one-letter slip of one of them, and a word of neither.
Vocabulary ==
    { <<1576, 1587, 1605>>,                 \* bsm
      <<1604, 1604, 1607>>,                 \* llh
      <<1585, 1576>>,                       \* rb
      <<1575, 1604, 1581, 1605, 1578>>,     \* alhmt, one letter off alhmd
      <<1603, 1578, 1576>> }                \* ktb

RECURSIVE WordLists(_)
WordLists(n) ==
    IF n = 0 THEN {<<>>}
    ELSE LET shorter == WordLists(n - 1)
         IN  shorter \cup {Append(ws, w) : ws \in {x \in shorter : Len(x) = n - 1},
                                            w \in Vocabulary}

Batches == WordLists(MaxBatch)

Advance(spokenWords) ==
    \E t \in {processNewWords(normalizedVersesRef, Tracker, spokenWords)} :
        /\ SetTracker(t)
        /\ sinceErrorSound' = playErrorSound(sinceErrorSound, t.sounds)
        /\ lastCall' = [spokenWords |-> spokenWords, branch |-> t.branch,
                        reveals |-> t.reveals]
        /\ UNCHANGED <<resultVars, passageVars, recogVars, forwarded, evaluation, endpoint, audioRecorder>>

\* A page whose passage is loaded (or not yet), with no recogniser: in its
\* place any word list may arrive at any time, between the resets and the
\* passage changes of the page.
TrackerInit ==
    /\ \E s \in Surahs \cup {0} :
          /\ selectedSurah = s
          /\ versesRef = QuranData(s)
          /\ normalizedVersesRef = NormalizedQuran[s]
    /\ loadingVerses = FALSE
    /\ vIdxRef = 0
    /\ wIdxRef = 0
    /\ revealedSetRef = {}
    /\ revealedWords = <<>>
    /\ errorCount = 0
    /\ consecutiveMissRef = 0
    /\ lastProcessedFinalIndexRef = 0
    /\ interimProcessedCountRef = 0
    /\ isListeningRef = FALSE
    /\ recognitionRef = 0
    /\ restartTimerRef = FALSE
    /\ recognitions = <<>>
    /\ fetches = {}
    /\ autoStartTimers = 0
    /\ sinceErrorSound = soundWindow
    /\ lastCall = NoCall
    /\ forwarded = <<>>
    /\ evaluation = NoEvaluation
    /\ endpoint = NoRequest
    /\ audioRecorder = NoRecorder

TrackerNext ==
    \/ \E spokenWords \in Batches : Advance(spokenWords)
    \/ HandleReset
    \/ \E n \in Surahs : SelectSurah(n)
    \/ \E n \in Surahs : FetchDone(n)
    \/ BackToList

TrackerSpec == TrackerInit /\ [][TrackerNext]_vars

---------------------------------------------------------------------------
(* One recognition instance followed alone: the first surah is loaded, the *)
(* automatic start has created the instance, and its result events are the *)
(* only thing that happens until it ends.                                  *)

ResultInit ==
    /\ selectedSurah = 1
    /\ versesRef = QuranData(1)
    /\ normalizedVersesRef = NormalizedQuran[1]
    /\ loadingVerses = FALSE
    /\ vIdxRef = 0
    /\ wIdxRef = 0
    /\ revealedSetRef = {}
    /\ revealedWords = <<>>
    /\ errorCount = 0
    /\ consecutiveMissRef = 0
    /\ lastProcessedFinalIndexRef = 0
    /\ interimProcessedCountRef = 0
    /\ isListeningRef = TRUE
    /\ recognitionRef = 1
    /\ restartTimerRef = FALSE
    /\ recognitions = << [status |-> "started", onend |-> TRUE, results |-> <<>>,
                          stale |-> FALSE] >>
    /\ fetches = {}
    /\ autoStartTimers = 0
    /\ sinceErrorSound = soundWindow
    /\ lastCall = NoCall
    /\ forwarded = <<>>
    /\ evaluation = NoEvaluation
    /\ endpoint = NoRequest
    /\ audioRecorder = NoRecorder

ResultNext ==
    \/ ResultEvent(1, MaxSegments, TRUE)
    \/ OnEnd(1)

ResultSpec == ResultInit /\ [][ResultNext]_vars

---------------------------------------------------------------------------
(* Starting, stopping and restarting the recogniser, without its results *)

MaxRestartInstances == 3

\* The page with surah 1 loaded and the microphone off.
RestartInit ==
    /\ selectedSurah = 1
    /\ versesRef = QuranData(1)
    /\ normalizedVersesRef = NormalizedQuran[1]
    /\ loadingVerses = FALSE
    /\ vIdxRef = 0
    /\ wIdxRef = 0
    /\ revealedSetRef = {}
    /\ revealedWords = <<>>
    /\ errorCount = 0
    /\ consecutiveMissRef = 0
    /\ lastProcessedFinalIndexRef = 0
    /\ interimProcessedCountRef = 0
    /\ isListeningRef = FALSE
    /\ recognitionRef = 0
    /\ restartTimerRef = FALSE
    /\ recognitions = <<>>
    /\ fetches = {}
    /\ autoStartTimers = 0
    /\ sinceErrorSound = soundWindow
    /\ lastCall = NoCall
    /\ forwarded = <<>>
    /\ evaluation = NoEvaluation
    /\ endpoint = NoRequest
    /\ audioRecorder = NoRecorder

RestartNext ==
    \/ ToggleListeningUpTo(MaxRestartInstances)
    \/ \E i \in 1..MaxRestartInstances : \E error \in Errors : OnError(i, error)
    \/ \E i \in 1..MaxRestartInstances : OnEnd(i)
    \/ RestartTimerUpTo(MaxRestartInstances)
    \/ HandleReset

RestartSpec == RestartInit /\ [][RestartNext]_vars

---------------------------------------------------------------------------
(* The tracker on a passage longer than the resynchronization window *)

\* Surah 112 as the verses route serves it: 4, 2, 4 and 5 words.
Ikhlas ==
    << [verse |-> 1, text |-> <<1602, 1604, 32, 1607, 1608, 32, 1575, 1604, 1604, 1607, 32,
                                1571, 1581, 1583>>],
       [verse |-> 2, text |-> <<1575, 1604, 1604, 1607, 32, 1575, 1604, 1589, 1605, 1583>>],
       [verse |-> 3, text |-> <<1604, 1605, 32, 1610, 1604, 1583, 32, 1608, 1604, 1605, 32,
                                1610, 1608, 1604, 1583>>],
       [verse |-> 4, text |-> <<1608, 1604, 1605, 32, 1610, 1603, 1606, 32, 1604, 1607, 32,
                                1603, 1601, 1608, 1575, 32, 1571, 1581, 1583>>] >>

NormalizedIkhlas == NormalizedVerses(Ikhlas)

\* One-word batches: the first three words of the surah, a word of its last
\* verse, and a word of no verse.
WindowBatches ==
    { << <<1602, 1604>> >>, << <<1607, 1608>> >>, << <<1575, 1604, 1604, 1607>> >>,
      << <<1610, 1603, 1606>> >>, << <<1603, 1578, 1576>> >> }

\* The page with the surah loaded and nothing recited yet.
WindowInit ==
    /\ selectedSurah = 112
    /\ versesRef = Ikhlas
    /\ normalizedVersesRef = NormalizedIkhlas
    /\ loadingVerses = FALSE
    /\ vIdxRef = 0
    /\ wIdxRef = 0
    /\ revealedSetRef = {}
    /\ revealedWords = <<>>
    /\ errorCount = 0
    /\ consecutiveMissRef = 0
    /\ lastProcessedFinalIndexRef = 0
    /\ interimProcessedCountRef = 0
    /\ isListeningRef = FALSE
    /\ recognitionRef = 0
    /\ restartTimerRef = FALSE
    /\ recognitions = <<>>
    /\ fetches = {}
    /\ autoStartTimers = 0
    /\ sinceErrorSound = soundWindow
    /\ lastCall = NoCall
    /\ forwarded = <<>>
    /\ evaluation = NoEvaluation
    /\ endpoint = NoRequest
    /\ audioRecorder = NoRecorder

WindowNext == \E spokenWords \in WindowBatches : Advance(spokenWords)

WindowSpec == WindowInit /\ [][WindowNext]_vars

---------------------------------------------------------------------------
(* playErrorSound on its own, with the clock.  Time is counted in ticks of  *)
(* 100 ms: soundWindow ticks are the 300 ms of the test.                     *)

MaxClock == 14

\* A playErrorSound that stores the time of the request before the test, so
\* that a dropped request restarts the window.
errorSoundRestarting(now, lastErrorSoundRef) ==
    [lastErrorSoundRef |-> now, started |-> ~(now - lastErrorSoundRef < soundWindow)]

\* One call at time now: the new value of lastErrorSoundRef, and whether an
\* oscillator was started.
errorSoundAt(now, lastErrorSoundRef) ==
    IF now - lastErrorSoundRef < soundWindow
    THEN [lastErrorSoundRef |-> lastErrorSoundRef, started |-> FALSE]
    ELSE [lastErrorSoundRef |-> now, started |-> TRUE]

\* lastErrorSoundRef is useRef(0) and Date.now() is far more than 300 ms:
\* the first request is never dropped.  started lists the times at which an
\* oscillator was started, dropped counts the calls since the last of them
\* that started none.
SoundInit ==
    /\ FirstRender
    /\ endpoint = NoRequest
    /\ audioRecorder = NoRecorder
    /\ evaluation = [fn |-> "playErrorSound", now |-> soundWindow,
                     lastErrorSoundRef |-> 0, started |-> <<>>, dropped |-> 0]

\* 100 ms pass.
Tick ==
    /\ evaluation.fn = "playErrorSound"
    /\ evaluation.now < MaxClock
    /\ evaluation' = [evaluation EXCEPT !.now = @ + 1]
    /\ sinceErrorSound' = (IF sinceErrorSound < soundWindow THEN sinceErrorSound + 1
                           ELSE sinceErrorSound)
    /\ UNCHANGED <<trackerVars, resultVars, passageVars, recogVars, lastCall, forwarded,
                   endpoint, audioRecorder>>

\* A call of playErrorSound.
PlayErrorSound ==
    /\ evaluation.fn = "playErrorSound"
    /\ \E call \in {errorSoundAt(evaluation.now, evaluation.lastErrorSoundRef)} :
          evaluation' = [evaluation EXCEPT
                             !.lastErrorSoundRef = call.lastErrorSoundRef,
                             !.started = IF call.started THEN Append(@, evaluation.now)
                                         ELSE @,
                             !.dropped = IF call.started THEN 0
                                         ELSE IF @ < soundWindow THEN @ + 1 ELSE @]
    /\ sinceErrorSound' = playErrorSound(sinceErrorSound, 1)
    /\ UNCHANGED <<trackerVars, resultVars, passageVars, recogVars, lastCall, forwarded,
                   endpoint, audioRecorder>>

SoundNext == Tick \/ PlayErrorSound

SoundSpec == SoundInit /\ [][SoundNext]_vars

---------------------------------------------------------------------------
(* JavaScript numbers.  The scores are computed in IEEE 754 double         *)
(* precision; the operators below compute the same values bit for bit for  *)
(* the non-negative numbers the scores take.                               *)

\* Binary digits of a natural number, most significant first.
RECURSIVE Bits(_)
Bits(n) == IF n = 0 THEN <<>> ELSE Append(Bits(n \div 2), n % 2)

\* The natural number a bit sequence denotes.
RECURSIVE Value(_)
Value(bits) ==
    IF bits = <<>> THEN 0
    ELSE 2 * Value(SubSeq(bits, 1, Len(bits) - 1)) + bits[Len(bits)]

Zeros(n) == [i \in 1..n |-> 0]

RECURSIVE StripZeros(_)
StripZeros(bits) ==
    IF bits # <<>> /\ Head(bits) = 0 THEN StripZeros(Tail(bits)) ELSE bits

\* bits + 1.
RECURSIVE Increment(_)
Increment(bits) ==
    IF bits = <<>> THEN <<1>>
    ELSE IF bits[Len(bits)] = 0 THEN [bits EXCEPT ![Len(bits)] = 1]
    ELSE Append(Increment(SubSeq(bits, 1, Len(bits) - 1)), 0)

\* A bit sequence as digits of 14 bits, least significant first, so that a
\* product of two digits and a column of four of them stay below 2^31.
RECURSIVE ToLimbs(_)
ToLimbs(bits) ==
    IF bits = <<>> THEN <<>>
    ELSE LET n == Len(bits)
             k == IF n < 14 THEN n ELSE 14
         IN  <<Value(SubSeq(bits, n - k + 1, n))>> \o ToLimbs(SubSeq(bits, 1, n - k))

RECURSIVE FromLimbs(_)
FromLimbs(limbs) ==
    IF limbs = <<>> THEN <<>>
    ELSE LET b == Bits(Head(limbs))
         IN  FromLimbs(Tail(limbs)) \o Zeros(14 - Len(b)) \o b

\* Schoolbook multiplication and addition of digit sequences.
RECURSIVE ColumnSum(_, _, _, _)
ColumnSum(a, b, k, i) ==
    IF i > Len(a) THEN 0
    ELSE (IF (k - i + 1) \in 1..Len(b) THEN a[i] * b[k - i + 1] ELSE 0)
             + ColumnSum(a, b, k, i + 1)

RECURSIVE MultiplyLimbs(_, _, _, _)
MultiplyLimbs(a, b, k, carry) ==
    IF k > Len(a) + Len(b) THEN <<>>
    ELSE LET s == ColumnSum(a, b, k, 1) + carry
         IN  <<s % 16384>> \o MultiplyLimbs(a, b, k + 1, s \div 16384)

RECURSIVE AddLimbs(_, _, _, _)
AddLimbs(a, b, k, carry) ==
    IF k > Len(a) /\ k > Len(b) THEN (IF carry = 0 THEN <<>> ELSE <<carry>>)
    ELSE LET s == (IF k <= Len(a) THEN a[k] ELSE 0) + (IF k <= Len(b) THEN b[k] ELSE 0)
                      + carry
         IN  <<s % 16384>> \o AddLimbs(a, b, k + 1, s \div 16384)

\* A number is Zero or m * 2^e with m a mantissa of 53 bits, m[1] = 1.
Zero == [m |-> <<>>, e |-> 0]

\* The number nearest to bits * 2^e, ties to the even mantissa (the rounding
\* of every arithmetic operation).  bits has no leading zero.
RoundToNearest(bits, e) ==
    IF Len(bits) <= 53
    THEN [m |-> bits \o Zeros(53 - Len(bits)), e |-> e - (53 - Len(bits))]
    ELSE LET kept == SubSeq(bits, 1, 53)
             half == bits[54] = 1
             rest == \E i \in 55..Len(bits) : bits[i] = 1
             m    == IF half /\ (rest \/ kept[53] = 1) THEN Increment(kept) ELSE kept
             drop == Len(bits) - 53
         IN  IF Len(m) = 54 THEN [m |-> SubSeq(m, 1, 53), e |-> e + drop + 1]
             ELSE [m |-> m, e |-> e + drop]

FromInteger(n) == IF n = 0 THEN Zero ELSE RoundToNearest(Bits(n), 0)

\* k bits of the binary expansion of r / b (r < b), then one bit telling
\* whether anything is left.
RECURSIVE QuotientBits(_, _, _)
QuotientBits(r, b, k) ==
    IF k = 0 THEN <<IF r = 0 THEN 0 ELSE 1>>
    ELSE <<(2 * r) \div b>> \o QuotientBits((2 * r) % b, b, k - 1)

\* a / b for integer operands a >= 0, b > 0.
Divide(a, b) ==
    IF a = 0 THEN Zero
    ELSE LET n == 54 + Len(Bits(b))
         IN  RoundToNearest(StripZeros(Bits(a \div b) \o QuotientBits(a % b, b, n)),
                            0 - (n + 1))

\* x * y
Multiply(x, y) ==
    IF x = Zero \/ y = Zero THEN Zero
    ELSE RoundToNearest(
             StripZeros(FromLimbs(MultiplyLimbs(ToLimbs(x.m), ToLimbs(y.m), 1, 0))),
             x.e + y.e)

\* x + y
Add(x, y) ==
    IF x = Zero THEN y
    ELSE IF y = Zero THEN x
    ELSE LET e == IF x.e < y.e THEN x.e ELSE y.e
         IN  RoundToNearest(
                 StripZeros(FromLimbs(AddLimbs(ToLimbs(x.m \o Zeros(x.e - e)),
                                               ToLimbs(y.m \o Zeros(y.e - e)), 1, 0))),
                 e)

\* x > y
Greater(x, y) ==
    IF x = Zero THEN FALSE
    ELSE IF y = Zero THEN TRUE
    ELSE \/ x.e > y.e
         \/ /\ x.e = y.e
            /\ \E i \in 1..53 : /\ x.m[i] > y.m[i]
                                /\ \A j \in 1..(i - 1) : x.m[j] = y.m[j]

\* Math.round(x) for 0 <= x < 2^31: halves go up.
MathRound(x) ==
    IF x = Zero \/ 53 + x.e < 0 THEN 0
    ELSE Value(SubSeq(x.m, 1, 53 + x.e)) + x.m[53 + x.e + 1]

---------------------------------------------------------------------------
(* The batch aligner: src/unnamed/part_005 *)

\* .split(" ").filter(Boolean)
RECURSIVE SplitOnSpace(_, _)
SplitOnSpace(text, i) ==
    LET letters == {k \in i..Len(text) : text[k] # 32}
    IN  IF letters = {} THEN <<>>
        ELSE LET first  == CHOOSE k \in letters : \A other \in letters : k <= other
                 spaces == {k \in first..Len(text) : text[k] = 32}
                 end    == IF spaces = {} THEN Len(text) + 1
                           ELSE CHOOSE k \in spaces : \A other \in spaces : k <= other
             IN  <<SubSeq(text, first, end - 1)>> \o SplitOnSpace(text, end)

\* normalizeArabic(text).split(" ").filter(Boolean)
Words(text) == SplitOnSpace(normalizeArabic(text), 1)

\* Row i of the LCS table from row i - 1 (prev); the entry dp[i][j] is kept
\* at index j + 1.
RECURSIVE LcsRow(_, _, _, _, _)
LcsRow(recWord, expWords, prev, j, cur) ==
    IF j > Len(expWords) THEN cur
    ELSE LcsRow(recWord, expWords, prev, j + 1,
                Append(cur, IF recWord = expWords[j] THEN prev[j] + 1
                            ELSE IF prev[j + 1] >= cur[j] THEN prev[j + 1] ELSE cur[j]))

RECURSIVE LcsRows(_, _, _, _)
LcsRows(recWords, expWords, i, rows) ==
    IF i > Len(recWords) THEN rows
    ELSE LcsRows(recWords, expWords, i + 1,
                 Append(rows, LcsRow(recWords[i], expWords, rows[i], 1, <<0>>)))

\* dp[i][j] is dp(recWords, expWords)[i + 1][j + 1].
dp(recWords, expWords) ==
    LcsRows(recWords, expWords, 1, << [j \in 1..(Len(expWords) + 1) |-> 0] >>)

\* A backtrack that would take the "missing" step before looking for a match.
RECURSIVE BacktrackMissingFirst(_, _, _, _, _, _)
BacktrackMissingFirst(recWords, expWords, table, i, j, alignment) ==
    IF i = 0 /\ j = 0 THEN alignment
    ELSE IF j > 0 /\ (i = 0 \/ table[i + 1][j] >= table[i][j + 1])
    THEN BacktrackMissingFirst(recWords, expWords, table, i, j - 1,
                   <<[type |-> "missing", expIdx |-> j - 1]>> \o alignment)
    ELSE IF i > 0 /\ j > 0 /\ recWords[i] = expWords[j]
    THEN BacktrackMissingFirst(recWords, expWords, table, i - 1, j - 1,
                   <<[type |-> "match", expIdx |-> j - 1, recIdx |-> i - 1]>> \o alignment)
    ELSE BacktrackMissingFirst(recWords, expWords, table, i - 1, j,
                   <<[type |-> "extra", recIdx |-> i - 1]>> \o alignment)

\* A backtrack that would take the "missing" step only when it is strictly
\* better than the "extra" step.
RECURSIVE BacktrackExtraOnTie(_, _, _, _, _, _)
BacktrackExtraOnTie(recWords, expWords, table, i, j, alignment) ==
    IF i = 0 /\ j = 0 THEN alignment
    ELSE IF i > 0 /\ j > 0 /\ recWords[i] = expWords[j]
    THEN BacktrackExtraOnTie(recWords, expWords, table, i - 1, j - 1,
                   <<[type |-> "match", expIdx |-> j - 1, recIdx |-> i - 1]>> \o alignment)
    ELSE IF j > 0 /\ (i = 0 \/ table[i + 1][j] > table[i][j + 1])
    THEN BacktrackExtraOnTie(recWords, expWords, table, i, j - 1,
                   <<[type |-> "missing", expIdx |-> j - 1]>> \o alignment)
    ELSE BacktrackExtraOnTie(recWords, expWords, table, i - 1, j,
                   <<[type |-> "extra", recIdx |-> i - 1]>> \o alignment)

\* The backtrack loop from (i, j); every step puts its item in front.
RECURSIVE Backtrack(_, _, _, _, _, _)
Backtrack(recWords, expWords, table, i, j, alignment) ==
    IF i = 0 /\ j = 0 THEN alignment
    ELSE IF i > 0 /\ j > 0 /\ recWords[i] = expWords[j]
    THEN Backtrack(recWords, expWords, table, i - 1, j - 1,
                   <<[type |-> "match", expIdx |-> j - 1, recIdx |-> i - 1]>> \o alignment)
    ELSE IF j > 0 /\ (i = 0 \/ table[i + 1][j] >= table[i][j + 1])
    THEN Backtrack(recWords, expWords, table, i, j - 1,
                   <<[type |-> "missing", expIdx |-> j - 1]>> \o alignment)
    ELSE Backtrack(recWords, expWords, table, i - 1, j,
                   <<[type |-> "extra", recIdx |-> i - 1]>> \o alignment)

RECURSIVE NearestFrom(_, _, _)
NearestFrom(alignment, currentIdx, offset) ==
    IF offset >= Len(alignment) THEN 0
    ELSE IF /\ currentIdx - offset >= 0
            /\ "expIdx" \in DOMAIN alignment[currentIdx - offset + 1]
    THEN alignment[currentIdx - offset + 1].expIdx + 1
    ELSE IF /\ currentIdx + offset < Len(alignment)
            /\ "expIdx" \in DOMAIN alignment[currentIdx + offset + 1]
    THEN alignment[currentIdx + offset + 1].expIdx
    ELSE NearestFrom(alignment, currentIdx, offset + 1)

findNearestExpectedPosition(alignment, currentIdx) == NearestFrom(alignment, currentIdx, 1)

\* The loop that turns the alignment into mistakes, from item ai on.
RECURSIVE Pairing(_, _, _, _)
Pairing(recWords, expWords, alignment, ai) ==
    IF ai >= Len(alignment) THEN <<>>
    ELSE LET item == alignment[ai + 1]
             next == alignment[ai + 2]
         IN  IF item.type = "extra" /\ ai + 1 < Len(alignment) /\ next.type = "missing"
             THEN <<[type |-> "wrong", position |-> next.expIdx,
                     expected |-> expWords[next.expIdx + 1],
                     actual |-> recWords[item.recIdx + 1]]>>
                  \o Pairing(recWords, expWords, alignment, ai + 2)
             ELSE IF item.type = "missing" /\ ai + 1 < Len(alignment)
                         /\ next.type = "extra"
             THEN <<[type |-> "wrong", position |-> item.expIdx,
                     expected |-> expWords[item.expIdx + 1],
                     actual |-> recWords[next.recIdx + 1]]>>
                  \o Pairing(recWords, expWords, alignment, ai + 2)
             ELSE IF item.type = "missing"
             THEN <<[type |-> "missing", position |-> item.expIdx,
                     expected |-> expWords[item.expIdx + 1]]>>
                  \o Pairing(recWords, expWords, alignment, ai + 1)
             ELSE IF item.type = "extra"
             THEN <<[type |-> "extra",
                     position |-> findNearestExpectedPosition(alignment, ai),
                     actual |-> recWords[item.recIdx + 1]]>>
                  \o Pairing(recWords, expWords, alignment, ai + 1)
             ELSE Pairing(recWords, expWords, alignment, ai + 1)

\* Mistakes that would number the missing words from 1.
AllMissingFromOne(expWords) ==
    [i \in 1..Len(expWords) |-> [type |-> "missing", position |-> i,
                                 expected |-> expWords[i]]]

\* Nothing recognized: every word is missing.
AllMissing(expWords) ==
    [i \in 1..Len(expWords) |-> [type |-> "missing", position |-> i - 1,
                                 expected |-> expWords[i]]]

\* Math.max(0, Math.round((correctWords / expWords.length) * 100)); a
\* quotient that is not positive rounds to at most 0.
Score(expWords, mistakes) ==
    LET correctWords == Len(expWords) - Len(SelectSeq(mistakes, LAMBDA m : m.type # "extra"))
    IN  IF correctWords <= 0 THEN 0
        ELSE MathRound(Multiply(Divide(correctWords, Len(expWords)), FromInteger(100)))

\* A comparison that would look at the recognized words first.
compareRecitationRecognizedFirst(recognized, expected) ==
    LET recWords == Words(recognized)
        expWords == Words(expected)
    IN  IF Len(recWords) = 0 THEN [score |-> 0, mistakes |-> AllMissing(expWords)]
        ELSE IF Len(expWords) = 0 THEN [score |-> 100, mistakes |-> <<>>]
        ELSE LET alignment == Backtrack(recWords, expWords, dp(recWords, expWords),
                                        Len(recWords), Len(expWords), <<>>)
                 mistakes  == Pairing(recWords, expWords, alignment, 0)
             IN  [score |-> Score(expWords, mistakes), mistakes |-> mistakes]

compareRecitation(recognized, expected) ==
    LET recWords == Words(recognized)
        expWords == Words(expected)
    IN  IF Len(expWords) = 0 THEN [score |-> 100, mistakes |-> <<>>]
        ELSE IF Len(recWords) = 0 THEN [score |-> 0, mistakes |-> AllMissing(expWords)]
        ELSE LET alignment == Backtrack(recWords, expWords, dp(recWords, expWords),
                                        Len(recWords), Len(expWords), <<>>)
                 mistakes  == Pairing(recWords, expWords, alignment, 0)
             IN  [score |-> Score(expWords, mistakes), mistakes |-> mistakes]

---------------------------------------------------------------------------
(* compareRecitation applied to a pair of texts *)

\* Raw words of the texts: a word with a vowel sign (bism), a word the
\* normaliser leaves alone (rb) and a word that loses its middle alef (qal).
AlignVocabulary ==
    { <<1576, 1616, 1587, 1605>>,
      <<1585, 1576>>,
      <<1602, 1575, 1604>> }

RECURSIVE Sentences(_, _)
Sentences(vocabulary, n) ==
    IF n = 0 THEN {<<>>}
    ELSE LET shorter == Sentences(vocabulary, n - 1)
         IN  shorter \cup {Append(ws, w) : ws \in {x \in shorter : Len(x) = n - 1},
                                            w \in vocabulary}

\* n times the word, separated by spaces.
Repeat(word, n) == JoinWords([i \in 1..n |-> word])

\* Texts of up to MaxAlignWords words, and a text of a vowel sign and a
\* space, which holds no word.
AlignTexts ==
    {JoinWords(ws) : ws \in Sentences(AlignVocabulary, MaxAlignWords)} \cup {<<1614, 32>>}

\* Every pair of the short texts, and a verse of LongVerse times the same
\* word recited with any number of its words left out.
AlignInputs ==
    (AlignTexts \X AlignTexts)
        \cup {<<Repeat(<<1585, 1576>>, c), Repeat(<<1585, 1576>>, LongVerse)>> :
                  c \in 0..LongVerse}

AlignInit ==
    /\ FirstRender
    /\ endpoint = NoRequest
    /\ audioRecorder = NoRecorder
    /\ evaluation \in {[fn |-> "compareRecitation", args |-> a, done |-> FALSE,
                        result |-> <<>>] : a \in AlignInputs}

CompareRecitation ==
    /\ evaluation.fn = "compareRecitation"
    /\ ~evaluation.done
    /\ evaluation' = [evaluation EXCEPT
                          !.done = TRUE,
                          !.result = compareRecitation(evaluation.args[1],
                                                       evaluation.args[2])]
    /\ UNCHANGED <<pageVars, endpoint, audioRecorder>>

AlignNext == CompareRecitation

AlignSpec == AlignInit /\ [][AlignNext]_vars

---------------------------------------------------------------------------
(* normalizeArabic applied to a string *)

\* Code units of the strings: the letters of the letter names "ta ha" (ta,
\* alef with hamza above, alef, ha), a space, a vowel sign (fatha), the
\* superscript alef, and the open fathatan of Quranic orthography (U+08F0).
NormAlphabet == {1591, 1571, 1575, 1607, 32, 1614, 1648, 2288}

RECURSIVE Strings(_, _)
Strings(alphabet, n) ==
    IF n = 0 THEN {<<>>}
    ELSE LET shorter == Strings(alphabet, n - 1)
         IN  shorter \cup {Append(x, c) : x \in {y \in shorter : Len(y) = n - 1},
                                           c \in alphabet}

NormInit ==
    /\ FirstRender
    /\ endpoint = NoRequest
    /\ audioRecorder = NoRecorder
    /\ evaluation \in {[fn |-> "normalizeArabic", args |-> <<text>>, done |-> FALSE,
                        result |-> <<>>] : text \in Strings(NormAlphabet, MaxLength)}

NormalizeArabic ==
    /\ evaluation.fn = "normalizeArabic"
    /\ ~evaluation.done
    /\ evaluation' = [evaluation EXCEPT
                          !.done = TRUE,
                          !.result = normalizeArabic(evaluation.args[1])]
    /\ UNCHANGED <<pageVars, endpoint, audioRecorder>>

NormNext == NormalizeArabic

NormSpec == NormInit /\ [][NormNext]_vars

---------------------------------------------------------------------------
(* normalizeArabic applied to spoken letter names *)

MaxNames == 4    \* letter names of a phrase handed to normalizeArabic

\* The letter names a recogniser writes for the opening letters of a surah:
\* alif (with and without hamza), lam, mim, sad, ra.
LetterNames == {<<1571, 1604, 1601>>, <<1575, 1604, 1601>>, <<1604, 1575, 1605>>,
                <<1605, 1610, 1605>>, <<1589, 1575, 1583>>, <<1585, 1575, 1569>>}

\* The phrases of one to n letter names, a space between two names.
RECURSIVE Phrases(_)
Phrases(n) ==
    IF n = 1 THEN LetterNames
    ELSE LET shorter == Phrases(n - 1)
         IN  shorter \cup {p \o <<32>> \o name : p \in shorter, name \in LetterNames}

LetterNameInit ==
    /\ FirstRender
    /\ endpoint = NoRequest
    /\ audioRecorder = NoRecorder
    /\ evaluation \in {[fn |-> "normalizeArabic", args |-> <<text>>, done |-> FALSE,
                        result |-> <<>>] : text \in Phrases(MaxNames)}

LetterNameNext == NormalizeArabic

LetterNameSpec == LetterNameInit /\ [][LetterNameNext]_vars

---------------------------------------------------------------------------
(* fuzzyMatchArabic applied to a pair of tokens *)

\* Tokens of one to MaxTokenLength letters over ba, sin, mim.
Tokens == Strings({1576, 1587, 1605}, MaxTokenLength) \ {<<>>}

MatchInit ==
    /\ FirstRender
    /\ endpoint = NoRequest
    /\ audioRecorder = NoRecorder
    /\ evaluation \in {[fn |-> "fuzzyMatchArabic", args |-> <<spoken, expected>>,
                        done |-> FALSE, result |-> FALSE] :
                           spoken \in Tokens, expected \in Tokens}

FuzzyMatchArabic ==
    /\ evaluation.fn = "fuzzyMatchArabic"
    /\ ~evaluation.done
    /\ evaluation' = [evaluation EXCEPT
                          !.done = TRUE,
                          !.result = fuzzyMatchArabic(evaluation.args[1],
                                                      evaluation.args[2])]
    /\ UNCHANGED <<pageVars, endpoint, audioRecorder>>

MatchNext == FuzzyMatchArabic

MatchSpec == MatchInit /\ [][MatchNext]_vars

---------------------------------------------------------------------------
(* The verse locator: src/lib/speech-to-text.ts.  quran is the content of   *)
(* quran.json: the verses of surah n at index n; surahs.json lists the same *)
(* surahs.                                                                  *)

confidenceThreshold == 30

\* The result null.
Null == [null |-> TRUE]

getAvailableSurahs(quran) == [n \in 1..Len(quran) |-> [number |-> n]]

getSurahVerses(quran, surahNumber) ==
    IF surahNumber \notin 1..Len(quran) THEN <<>>
    ELSE [i \in 1..Len(quran[surahNumber]) |->
             [surah |-> quran[surahNumber][i].chapter,
              ayah |-> quran[surahNumber][i].verse,
              text |-> quran[surahNumber][i].text,
              textClean |-> normalizeArabic(quran[surahNumber][i].text)]]

RECURSIVE AllVersesFrom(_, _, _)
AllVersesFrom(quran, surahs, k) ==
    IF k > Len(surahs) THEN <<>>
    ELSE getSurahVerses(quran, surahs[k].number) \o AllVersesFrom(quran, surahs, k + 1)

getAllVerses(quran) == AllVersesFrom(quran, getAvailableSurahs(quran), 1)

\* A loop that would look for each input word from the start of the verse.
RECURSIVE SequentialMatchesAnywhere(_, _, _, _, _)
SequentialMatchesAnywhere(inputWords, verseWords, k, lastMatchPos, sequentialMatches) ==
    IF k > Len(inputWords) THEN sequentialMatches
    ELSE IF \E i \in 0..(Len(verseWords) - 1) : inputWords[k] = verseWords[i + 1]
    THEN SequentialMatchesAnywhere(inputWords, verseWords, k + 1, lastMatchPos,
                                   sequentialMatches + 1)
    ELSE SequentialMatchesAnywhere(inputWords, verseWords, k + 1, lastMatchPos,
                                   sequentialMatches)

\* The loop over the input words, from word k on.
RECURSIVE SequentialMatches(_, _, _, _, _)
SequentialMatches(inputWords, verseWords, k, lastMatchPos, sequentialMatches) ==
    IF k > Len(inputWords) THEN sequentialMatches
    ELSE LET found == {i \in (lastMatchPos + 1)..(Len(verseWords) - 1) :
                           inputWords[k] = verseWords[i + 1]}
         IN  IF found = {}
             THEN SequentialMatches(inputWords, verseWords, k + 1, lastMatchPos,
                                    sequentialMatches)
             ELSE SequentialMatches(inputWords, verseWords, k + 1,
                                    CHOOSE i \in found : \A other \in found : i <= other,
                                    sequentialMatches + 1)

calculateSequentialBonus(inputWords, verseWords) ==
    IF Len(inputWords) = 0 \/ Len(verseWords) = 0 THEN Zero
    ELSE Divide(SequentialMatches(inputWords, verseWords, 1, -1, 0), Len(verseWords))

calculateSimilarity(inputWords, verseWords) ==
    IF Len(inputWords) = 0 \/ Len(verseWords) = 0 THEN Zero
    ELSE LET inputSet   == {inputWords[i] : i \in 1..Len(inputWords)}
             verseSet   == {verseWords[i] : i \in 1..Len(verseWords)}
             matchCount == Cardinality(inputSet \cap verseSet)
             coverage   == Divide(matchCount, Cardinality(verseSet))
             sequentialBonus == calculateSequentialBonus(inputWords, verseWords)
         IN  Add(Multiply(coverage, Divide(7, 10)), Multiply(sequentialBonus, Divide(3, 10)))

\* The loop with the comparison score >= bestScore, which keeps the last
\* verse of greatest similarity.
RECURSIVE BestMatchLastSeen(_, _, _, _, _)
BestMatchLastSeen(inputWords, versesToSearch, k, bestMatch, bestScore) ==
    IF k > Len(versesToSearch) THEN bestMatch
    ELSE LET verse      == versesToSearch[k]
             verseWords == SplitOnSpace(verse.textClean, 1)
             score      == calculateSimilarity(inputWords, verseWords)
         IN  IF ~Greater(bestScore, score)
             THEN BestMatchLastSeen(inputWords, versesToSearch, k + 1,
                                    [surah |-> verse.surah,
                                     ayah |-> verse.ayah,
                                     confidence |-> MathRound(Multiply(score, FromInteger(100))),
                                     matchedText |-> verse.text,
                                     verse |-> verse],
                                    score)
             ELSE BestMatchLastSeen(inputWords, versesToSearch, k + 1, bestMatch, bestScore)

\* The loop over the verses to search, from verse k on.
RECURSIVE BestMatch(_, _, _, _, _)
BestMatch(inputWords, versesToSearch, k, bestMatch, bestScore) ==
    IF k > Len(versesToSearch) THEN bestMatch
    ELSE LET verse      == versesToSearch[k]
             verseWords == SplitOnSpace(verse.textClean, 1)
             score      == calculateSimilarity(inputWords, verseWords)
         IN  IF Greater(score, bestScore)
             THEN BestMatch(inputWords, versesToSearch, k + 1,
                            [surah |-> verse.surah,
                             ayah |-> verse.ayah,
                             confidence |-> MathRound(Multiply(score, FromInteger(100))),
                             matchedText |-> verse.text,
                             verse |-> verse],
                            score)
             ELSE BestMatch(inputWords, versesToSearch, k + 1, bestMatch, bestScore)

\* surah is 0 when the argument is left out.
detectVerse(quran, recognizedText, surah) ==
    LET inputWords == Words(recognizedText)
    IN  IF Len(inputWords) = 0 THEN Null
        ELSE LET versesToSearch == IF surah # 0 THEN getSurahVerses(quran, surah)
                                   ELSE getAllVerses(quran)
             IN  IF Len(versesToSearch) = 0 THEN Null
                 ELSE LET bestMatch == BestMatch(inputWords, versesToSearch, 1, Null, Zero)
                      IN  IF bestMatch # Null /\ bestMatch.confidence < confidenceThreshold
                          THEN Null
                          ELSE bestMatch

---------------------------------------------------------------------------
(* detectVerse applied to a text, over a store of verses *)

\* Raw words of the verses and of the texts: bism with its vowel signs, rb,
\* qal (which loses its middle alef) and hw.
DetectVocabulary ==
    << <<1576, 1616, 1587, 1605>>, <<1585, 1576>>, <<1602, 1575, 1604>>, <<1607, 1608>> >>

\* Verse texts: a verse, a longer verse that starts with it, a verse of five
\* words with one of them twice, a verse that shares a word with the longer
\* ones only, and the first verse with its words swapped.
VerseTexts ==
    { JoinWords(<<DetectVocabulary[1], DetectVocabulary[2]>>),
      JoinWords(<<DetectVocabulary[1], DetectVocabulary[2], DetectVocabulary[3]>>),
      JoinWords(<<DetectVocabulary[1], DetectVocabulary[1], DetectVocabulary[2],
                  DetectVocabulary[3], DetectVocabulary[4]>>),
      JoinWords(<<DetectVocabulary[3], DetectVocabulary[4]>>),
      JoinWords(<<DetectVocabulary[2], DetectVocabulary[1]>>) }

\* Sequences of up to n different verse texts.
RECURSIVE TextLists(_)
TextLists(n) ==
    IF n = 0 THEN {<<>>}
    ELSE LET shorter == TextLists(n - 1)
         IN  shorter \cup {Append(ts, t) : ts \in {x \in shorter : Len(x) = n - 1},
                                           t \in VerseTexts}

Surah(chapter, texts) ==
    [i \in 1..Len(texts) |-> [chapter |-> chapter, verse |-> i, text |-> texts[i]]]

AllDifferent(texts) == \A i, j \in 1..Len(texts) : i # j => texts[i] # texts[j]

\* Stores of one surah of up to MaxVerses different verses, and stores of two
\* surahs of one verse each.
Stores ==
    {<<Surah(1, ts)>> : ts \in {x \in TextLists(MaxVerses) : x # <<>> /\ AllDifferent(x)}}
        \cup {<<Surah(1, <<ts[1]>>), Surah(2, <<ts[2]>>)>> :
                  ts \in {x \in TextLists(2) : Len(x) = 2 /\ AllDifferent(x)}}

\* Texts to locate: every text of up to MaxSpoken words, a text without any
\* word, and the text of every verse.
SpokenTexts ==
    {JoinWords(ws) : ws \in Sentences({DetectVocabulary[i] : i \in 1..4}, MaxSpoken)}
        \cup {<<1614, 32>>} \cup VerseTexts

DetectInit ==
    /\ FirstRender
    /\ endpoint = NoRequest
    /\ audioRecorder = NoRecorder
    /\ evaluation \in {[fn |-> "detectVerse", args |-> <<quran, text, surah>>,
                        done |-> FALSE, result |-> Null] :
                           quran \in Stores, text \in SpokenTexts, surah \in 0..2}

DetectVerse ==
    /\ evaluation.fn = "detectVerse"
    /\ ~evaluation.done
    /\ evaluation' = [evaluation EXCEPT
                          !.done = TRUE,
                          !.result = detectVerse(evaluation.args[1], evaluation.args[2],
                                                 evaluation.args[3])]
    /\ UNCHANGED <<pageVars, endpoint, audioRecorder>>

DetectNext == DetectVerse

DetectSpec == DetectInit /\ [][DetectNext]_vars

---------------------------------------------------------------------------
(* calculateSequentialBonus applied to two word lists *)

MaxBonusWords == 3    \* words of a list handed to calculateSequentialBonus

\* Normalized words, as calculateSimilarity hands them over: bsm, rb, ql.
BonusVocabulary == {<<1576, 1587, 1605>>, <<1585, 1576>>, <<1602, 1604>>}

BonusInit ==
    /\ FirstRender
    /\ endpoint = NoRequest
    /\ audioRecorder = NoRecorder
    /\ evaluation \in {[fn |-> "calculateSequentialBonus",
                        args |-> <<inputWords, verseWords>>, done |-> FALSE,
                        result |-> Zero] :
                           inputWords \in Sentences(BonusVocabulary, MaxBonusWords),
                           verseWords \in Sentences(BonusVocabulary, MaxBonusWords)}

CalculateSequentialBonus ==
    /\ evaluation.fn = "calculateSequentialBonus"
    /\ ~evaluation.done
    /\ evaluation' = [evaluation EXCEPT
                          !.done = TRUE,
                          !.result = calculateSequentialBonus(evaluation.args[1],
                                                              evaluation.args[2])]
    /\ UNCHANGED <<pageVars, endpoint, audioRecorder>>

BonusNext == CalculateSequentialBonus

BonusSpec == BonusInit /\ [][BonusNext]_vars

---------------------------------------------------------------------------
(* The check-recitation endpoint (src/app/api/verses/route.ts) *)

MAX_FILE_SIZE == 10 * 1024 * 1024

\* A form field the request does not have.
undefined == -1

\* text.trim() === "": every code unit is white space.
IsBlank(text) == \A i \in 1..Len(text) : IsSpace(text[i])

ErrorMessage(message, detail) == [message |-> message, detail |-> detail]

\* NextResponse.json(body, { status }).
Json(body, status) == [status |-> status, body |-> body]

Failure(message, detail, status) ==
    Json([success |-> FALSE, error |-> ErrorMessage(message, detail)], status)

getVerse(quran, surahNumber, ayahNumber) ==
    LET verses == getSurahVerses(quran, surahNumber)
        found  == {i \in 1..Len(verses) : verses[i].ayah = ayahNumber}
    IN  IF found = {} THEN Null
        ELSE verses[CHOOSE i \in found : \A other \in found : i <= other]

\* The checks before the transcription; Null when all of them pass.
ValidateLcs(form) ==
    IF form.audio.kind = "absent" THEN Failure("Missing required field: audio", <<>>, 400)
    ELSE IF form.audio.kind # "file" THEN Failure("Audio must be a file", <<>>, 400)
    ELSE IF form.audio.size > MAX_FILE_SIZE
         THEN Failure("Audio file too large (max 10MB)", <<>>, 400)
    ELSE Null

ValidatePositional(quran, form) ==
    IF form.surah = undefined THEN Failure("Missing surah number", <<>>, 400)
    ELSE IF form.audio.kind = "absent" THEN Failure("Missing audio file", <<>>, 400)
    ELSE IF form.audio.kind # "file" THEN Failure("Audio must be a file", <<>>, 400)
    ELSE IF form.audio.size > MAX_FILE_SIZE
         THEN Failure("Audio file too large (max 10MB)", <<>>, 400)
    ELSE IF form.surah < 1 \/ form.surah > 114
         THEN Failure("Invalid surah number", <<>>, 400)
    ELSE IF Len(getSurahVerses(quran, form.surah)) = 0
         THEN Failure("Surah not found", <<>>, 404)
    ELSE Null

\* The handler of the version that aligns with compareRecitation, from the
\* transcript on.
RespondLcs(quran, form, text) ==
    IF IsBlank(text)
    THEN Json([success |-> TRUE, recognized |-> <<>>, expected |-> <<>>, score |-> 0,
               mistakes |-> <<>>, correctedVerse |-> <<>>], 200)
    ELSE IF form.ayah # undefined /\ form.surah # undefined
    THEN LET verse == getVerse(quran, form.surah, form.ayah)
         IN  IF verse = Null
             THEN Failure("Verse not found", <<form.surah, form.ayah>>, 404)
             ELSE LET comparison == compareRecitation(text, verse.textClean)
                  IN  Json([success |-> TRUE, recognized |-> text, expected |-> verse.text,
                            score |-> comparison.score, mistakes |-> comparison.mistakes,
                            correctedVerse |-> verse.text], 200)
    ELSE LET detected == detectVerse(quran, text,
                                     IF form.surah = undefined THEN 0 ELSE form.surah)
         IN  IF detected = Null
             THEN Json([success |-> TRUE, recognized |-> text, expected |-> <<>>,
                        score |-> 0, mistakes |-> <<>>, correctedVerse |-> <<>>], 200)
             ELSE LET comparison == compareRecitation(text, detected.verse.textClean)
                  IN  Json([success |-> TRUE, recognized |-> text,
                            expected |-> detected.verse.text,
                            score |-> comparison.score, mistakes |-> comparison.mistakes,
                            correctedVerse |-> detected.verse.text,
                            detectedVerse |-> [surah |-> detected.surah,
                                               ayah |-> detected.ayah,
                                               confidence |-> detected.confidence,
                                               matchedText |-> detected.matchedText]], 200)

\* The words of one verse against the recognized words at the same places.
VerseOutcomes(verse, recognizedWords, currentWordIndex) ==
    LET verseWords == SplitOnSpace(verse.textClean, 1)
    IN  [i \in 1..Len(verseWords) |->
            IF currentWordIndex + i > Len(recognizedWords)
            THEN [type |-> "missing", position |-> verse.ayah - 1,
                  expected |-> verseWords[i]]
            ELSE IF normalizeArabic(recognizedWords[currentWordIndex + i])
                        # normalizeArabic(verseWords[i])
            THEN [type |-> "wrong", position |-> verse.ayah - 1,
                  expected |-> verseWords[i],
                  actual |-> recognizedWords[currentWordIndex + i]]
            ELSE [type |-> "correct"]]

\* The loop over the verses, from verse k on.
RECURSIVE PositionalLoop(_, _, _, _)
PositionalLoop(verses, k, recognizedWords, currentWordIndex) ==
    IF k > Len(verses) THEN <<>>
    ELSE LET outcomes == VerseOutcomes(verses[k], recognizedWords, currentWordIndex)
         IN  outcomes \o PositionalLoop(verses, k + 1, recognizedWords,
                                        currentWordIndex + Len(outcomes))

\* The handler of the version that compares word by word, from the
\* transcript on.
RespondPositional(quran, form, text) ==
    IF IsBlank(text)
    THEN Json([success |-> TRUE, recognized |-> <<>>, mistakes |-> <<>>, score |-> 0,
               verseResults |-> <<>>], 200)
    ELSE LET verses == getSurahVerses(quran, form.surah)
             recognizedWords == Words(text)
             outcomes == PositionalLoop(verses, 1, recognizedWords, 0)
             totalExpectedWords == Len(outcomes)
             correctWords == Len(SelectSeq(outcomes, LAMBDA o : o.type = "correct"))
             extra == [i \in 1..(IF Len(recognizedWords) > totalExpectedWords
                                 THEN Len(recognizedWords) - totalExpectedWords ELSE 0) |->
                          [type |-> "extra", position |-> Len(verses) - 1,
                           actual |-> recognizedWords[totalExpectedWords + i]]]
             score == IF totalExpectedWords > 0 /\ correctWords > 0
                      THEN MathRound(Multiply(Divide(correctWords, totalExpectedWords),
                                              FromInteger(100)))
                      ELSE 0
         IN  Json([success |-> TRUE, recognized |-> text,
                   mistakes |-> SelectSeq(outcomes, LAMBDA o : o.type # "correct") \o extra,
                   score |-> score], 200)

\* A catch that answers like the early return for an empty transcript.
CaughtAsEmptyResult(thrown) ==
    Json([success |-> TRUE, recognized |-> <<>>, expected |-> <<>>, score |-> 0,
          mistakes |-> <<>>, correctedVerse |-> <<>>], 200)

\* catch (error): the message of the error thrown, with status 500.
Caught(thrown) == Json([success |-> FALSE, error |-> thrown], 500)

\* POST up to the first await of transcribeAudio: the checks, the call, and
\* in it the test of the API key and the request to the provider.
Post ==
    /\ endpoint.pc = "received"
    /\ \E invalid \in {IF endpoint.route = "lcs" THEN ValidateLcs(endpoint.form)
                       ELSE ValidatePositional(endpoint.quran, endpoint.form)} :
          IF invalid # Null
          THEN endpoint' = [endpoint EXCEPT !.pc = "responded", !.response = invalid]
          ELSE IF ~endpoint.apiKey
          THEN endpoint' =
                   [endpoint EXCEPT
                        !.pc = "responded",
                        !.calls = @ + 1,
                        !.thrown = ErrorMessage(
                            "OPENAI_API_KEY environment variable is not set", <<>>),
                        !.response = Caught(ErrorMessage(
                            "OPENAI_API_KEY environment variable is not set", <<>>))]
          ELSE endpoint' = [endpoint EXCEPT !.pc = "transcribing",
                                            !.calls = @ + 1,
                                            !.requests = @ + 1]
    /\ UNCHANGED <<pageVars, evaluation, audioRecorder>>

\* The provider answers with a status that is not OK, or the request fails:
\* transcribeAudio throws and the handler's catch answers.
TranscriptionFails(reply) ==
    /\ endpoint.pc = "transcribing"
    /\ reply.kind # "ok"
    /\ \E thrown \in {IF reply.kind = "status"
                      THEN ErrorMessage("Whisper API error", <<reply.status>>)
                      ELSE ErrorMessage("fetch failed", <<>>)} :
          endpoint' = [endpoint EXCEPT !.pc = "responded",
                                       !.thrown = thrown,
                                       !.response = Caught(thrown)]
    /\ UNCHANGED <<pageVars, evaluation, audioRecorder>>

\* The provider answers OK: transcribeAudio returns data.text and the handler
\* runs to its response.
TranscriptionSucceeds(reply) ==
    /\ endpoint.pc = "transcribing"
    /\ reply.kind = "ok"
    /\ \E response \in {IF endpoint.route = "lcs"
                        THEN RespondLcs(endpoint.quran, endpoint.form, reply.text)
                        ELSE RespondPositional(endpoint.quran, endpoint.form, reply.text)} :
          endpoint' = [endpoint EXCEPT !.pc = "responded",
                                       !.sttResult = [text |-> reply.text, language |-> "ar"],
                                       !.response = response]
    /\ UNCHANGED <<pageVars, evaluation, audioRecorder>>

\* The stores the endpoint reads: one surah of two verses, and two surahs of
\* one verse each.
EndpointStores ==
    { <<Surah(1, <<JoinWords(<<DetectVocabulary[1], DetectVocabulary[2]>>),
                   JoinWords(<<DetectVocabulary[3], DetectVocabulary[4]>>)>>)>>,
      <<Surah(1, <<JoinWords(<<DetectVocabulary[1], DetectVocabulary[2],
                               DetectVocabulary[3]>>)>>),
        Surah(2, <<JoinWords(<<DetectVocabulary[3], DetectVocabulary[4]>>)>>)>> }

\* Transcripts: no text, spaces only, a vowel sign only, one word, the first
\* verse of the first store, a text with a word of no verse.
Transcripts ==
    { <<>>, <<32>>, <<32, 32>>, <<1614>>,
      DetectVocabulary[2],
      JoinWords(<<DetectVocabulary[1], DetectVocabulary[2]>>),
      JoinWords(<<DetectVocabulary[1], <<1603, 1578, 1576>>, DetectVocabulary[3]>>) }

ProviderReplies ==
    {[kind |-> "ok", text |-> t] : t \in Transcripts}
        \cup {[kind |-> "status", status |-> c] : c \in {401, 500}}
        \cup {[kind |-> "rejected"]}

Forms ==
    {[surah |-> s, ayah |-> a, audio |-> f] :
        s \in {undefined, 0, 1, 2}, a \in {undefined, 1, 2},
        f \in {[kind |-> "absent", size |-> 0], [kind |-> "string", size |-> 0],
               [kind |-> "file", size |-> MAX_FILE_SIZE],
               [kind |-> "file", size |-> MAX_FILE_SIZE + 1]}}

CheckInit ==
    /\ FirstRender
    /\ evaluation = NoEvaluation
    /\ audioRecorder = NoRecorder
    /\ endpoint \in {[route |-> r, quran |-> q, apiKey |-> k, form |-> f,
                      pc |-> "received", calls |-> 0, requests |-> 0,
                      sttResult |-> Null, thrown |-> Null, response |-> Null] :
                         r \in {"lcs", "positional"}, q \in EndpointStores,
                         k \in BOOLEAN, f \in Forms}

CheckNext ==
    \/ Post
    \/ \E reply \in ProviderReplies : TranscriptionFails(reply)
    \/ \E reply \in ProviderReplies : TranscriptionSucceeds(reply)

CheckSpec == CheckInit /\ [][CheckNext]_vars

---------------------------------------------------------------------------
(* The useAudioRecorder hook (src/hooks/use-audio-recorder.ts) *)

MaxRecordings == 3    \* startRecording calls of one mounted hook

\* The hook's state: status, audioBlob and error (useState), mediaRecorderRef
\* (0 for null, else the index of the MediaRecorder) and chunksRef (the number
\* of chunks it holds); started counts the startRecording calls, pending the
\* getUserMedia promises not settled yet; streams[k] tells whether the tracks
\* of the k-th stream are live, recorders[k] records on streams[k].
RecorderInit ==
    /\ FirstRender
    /\ evaluation = NoEvaluation
    /\ endpoint = NoRequest
    /\ audioRecorder = [status |-> "idle", audioBlob |-> Null, error |-> Null,
                        mediaRecorderRef |-> 0, chunksRef |-> 0,
                        started |-> 0, pending |-> 0,
                        streams |-> <<>>, recorders |-> <<>>]

\* startRecording up to the await of getUserMedia.
HookStartRecording ==
    /\ audioRecorder.started < MaxRecordings
    /\ audioRecorder' = [audioRecorder EXCEPT
                             !.error = Null,
                             !.audioBlob = Null,
                             !.chunksRef = 0,
                             !.started = @ + 1,
                             !.pending = @ + 1]
    /\ UNCHANGED <<pageVars, evaluation, endpoint>>

\* getUserMedia resolves with a stream: the rest of the try block.
GetUserMediaResolves ==
    /\ audioRecorder.pending > 0
    /\ audioRecorder' = [audioRecorder EXCEPT
                             !.pending = @ - 1,
                             !.streams = Append(@, [live |-> TRUE]),
                             !.recorders = Append(@, [state |-> "recording"]),
                             !.mediaRecorderRef = Len(audioRecorder.recorders) + 1,
                             !.status = "recording"]
    /\ UNCHANGED <<pageVars, evaluation, endpoint>>

\* getUserMedia rejects: the catch block.
GetUserMediaRejects(name) ==
    /\ audioRecorder.pending > 0
    /\ audioRecorder' = [audioRecorder EXCEPT
                             !.pending = @ - 1,
                             !.error = IF name = "NotAllowedError"
                                       THEN [message |-> "Microphone access denied. Please allow microphone access and try again."]
                                       ELSE [message |-> "Could not start recording. Please check your microphone."],
                             !.status = "idle"]
    /\ UNCHANGED <<pageVars, evaluation, endpoint>>

\* stopRecording; MediaRecorder.stop() makes the recorder inactive at once and
\* queues its dataavailable and stop events.
StopRecording ==
    /\ audioRecorder.status # "unmounted"
    /\ audioRecorder' =
           IF /\ audioRecorder.mediaRecorderRef # 0
              /\ audioRecorder.recorders[audioRecorder.mediaRecorderRef].state = "recording"
           THEN [audioRecorder EXCEPT
                     !.recorders[audioRecorder.mediaRecorderRef].state = "stopping"]
           ELSE audioRecorder
    /\ UNCHANGED <<pageVars, evaluation, endpoint>>

\* The events of a stopped recorder: ondataavailable (size is the size of
\* event.data), then onstop.
RecorderOnStop(r, size) ==
    /\ r \in 1..Len(audioRecorder.recorders)
    /\ audioRecorder.recorders[r].state = "stopping"
    /\ LET chunks == IF size > 0 THEN audioRecorder.chunksRef + 1
                     ELSE audioRecorder.chunksRef
       IN  audioRecorder' = [audioRecorder EXCEPT
                                 !.recorders[r].state = "inactive",
                                 !.chunksRef = chunks,
                                 !.audioBlob = [chunks |-> chunks],
                                 !.status = "stopped",
                                 !.streams[r].live = FALSE]
    /\ UNCHANGED <<pageVars, evaluation, endpoint>>

\* recorder.onerror; the recorder is inactive afterwards, and its stop event
\* follows or not.
RecorderOnError(r, stopFollows) ==
    /\ r \in 1..Len(audioRecorder.recorders)
    /\ audioRecorder.recorders[r].state = "recording"
    /\ audioRecorder' = [audioRecorder EXCEPT
                             !.recorders[r].state =
                                 IF stopFollows THEN "stopping" ELSE "inactive",
                             !.error = [message |-> "Recording failed. Please try again."],
                             !.status = "idle",
                             !.streams[r].live = FALSE]
    /\ UNCHANGED <<pageVars, evaluation, endpoint>>

ResetRecording ==
    /\ audioRecorder.status # "unmounted"
    /\ audioRecorder' = [audioRecorder EXCEPT
                             !.status = "idle",
                             !.audioBlob = Null,
                             !.error = Null,
                             !.chunksRef = 0]
    /\ UNCHANGED <<pageVars, evaluation, endpoint>>

RecorderNext ==
    \/ HookStartRecording
    \/ GetUserMediaResolves
    \/ \E name \in {"NotAllowedError", "NotFoundError"} : GetUserMediaRejects(name)
    \/ StopRecording
    \/ \E r \in 1..MaxRecordings, size \in 0..1 : RecorderOnStop(r, size)
    \/ \E r \in 1..MaxRecordings, stopFollows \in BOOLEAN : RecorderOnError(r, stopFollows)
    \/ ResetRecording

RecorderSpec == RecorderInit /\ [][RecorderNext]_vars

---------------------------------------------------------------------------
(* Positions in recitation order *)

RECURSIVE WordsBefore(_, _)
WordsBefore(nv, v) ==
    IF v <= 0 THEN 0 ELSE WordsBefore(nv, v - 1) + WordCount(nv, v - 1)

TotalWords(nv) == WordsBefore(nv, Len(nv))

\* Number of words before the cursor (v, w).
Position(nv, v, w) == WordsBefore(nv, v) + w

\* The verse index and word index of the p-th word, p counted from 0.
Locate(nv, p) ==
    CHOOSE c \in {[v |-> v, w |-> w] : v \in 0..(Len(nv) - 1), w \in 0..(windowSize * 2)} :
        /\ c.w < WordCount(nv, c.v)
        /\ Position(nv, c.v, c.w) = p

WordAtPosition(nv, p) == WordAt(nv, Locate(nv, p).v, Locate(nv, p).w)

StatusAtPosition(nv, p, ok) == WordStatus(nv, Locate(nv, p).v, Locate(nv, p).w, ok)

\* The step is a direct processNewWords call.
Called == lastCall'.branch # "none"

---------------------------------------------------------------------------
(* Properties of a whole session of processNewWords calls *)

CursorBefore(v1, w1, v2, w2) == v1 < v2 \/ (v1 = v2 /\ w1 < w2)

\* The step is one of the handlers that reset the tracker: handleReset, the
\* surah effect after a click on a surah, or the back button.
ResetStep == HandleReset \/ BackToList \/ \E n \in Surahs : SelectSurah(n)

\* C1: no (verse, wordIndex) pair appears in two entries of the revealed
\* words, whatever calls, resets and passage changes led to the state.
C1_NoDoubleReveal ==
    \A i \in 1..Len(revealedWords) : \A j \in 1..Len(revealedWords) :
        (i # j) =>
            <<revealedWords[i].verseNumber, revealedWords[i].wordIndex>>
                # <<revealedWords[j].verseNumber, revealedWords[j].wordIndex>>

C1_Witness ==
    /\ lastCall.branch = "force"
    /\ Len(lastCall.reveals) = 1
    /\ Len(revealedWords) = TotalWords(normalizedVersesRef)
    /\ Len(revealedWords) > 3
    /\ \E i \in 1..Len(revealedWords) : revealedWords[i].isCorrect
    /\ errorCount >= 3

\* C2: no processNewWords call moves the cursor (vIdxRef, wIdxRef) back in
\* lexicographic order; a step that moves it back is a reset or a passage
\* change, and leaves it at (0, 0).
C2_CursorMonotonic ==
    [][/\ Called => ~CursorBefore(vIdxRef', wIdxRef', vIdxRef, wIdxRef)
       /\ CursorBefore(vIdxRef', wIdxRef', vIdxRef, wIdxRef) =>
              /\ ResetStep
              /\ vIdxRef' = 0
              /\ wIdxRef' = 0]_vars

C2_Witness ==
    /\ lastCall.branch = "sequential"
    /\ Len(lastCall.reveals) = 2
    /\ lastCall.reveals[1].verseNumber # lastCall.reveals[2].verseNumber
    /\ vIdxRef = 1
    /\ wIdxRef = 1

\* C3: a processNewWords call keeps every key of the revealed set and every
\* entry of the revealed words, adding its outcomes at the end; a step that
\* removes a key or an entry is a reset or a passage change.
C3_RevealedOnlyGrows ==
    [][/\ Called =>
              /\ revealedSetRef \subseteq revealedSetRef'
              /\ revealedWords' = revealedWords \o lastCall'.reveals
       /\ (\/ ~(revealedSetRef \subseteq revealedSetRef')
           \/ Len(revealedWords') < Len(revealedWords)
           \/ SubSeq(revealedWords', 1, Len(revealedWords)) # revealedWords) =>
              ResetStep]_vars

C3_Witness ==
    /\ lastCall.branch = "resync"
    /\ Len(lastCall.reveals) = 2
    /\ Len(revealedWords) = 4
    /\ Cardinality(revealedSetRef) = 4

---------------------------------------------------------------------------
(* Properties of one processNewWords call *)

ResyncCase(nv, p, spokenWords) ==
    /\ Len(spokenWords) = 1
    /\ p + 3 < TotalWords(nv)
    /\ fuzzyMatchArabic(spokenWords[1], WordAtPosition(nv, p + 3))
    /\ \A k \in 0..2 : ~fuzzyMatchArabic(spokenWords[1], WordAtPosition(nv, p + k))

\* C4: with the cursor at word position p and a one-word batch that matches
\* the expected word at p + 3 and none of p, p + 1, p + 2, the call reveals
\* p, p + 1, p + 2 as incorrect, then judges p + 3, and leaves the cursor at
\* p + 4.
C4_Resynchronization ==
    [][LET nv == normalizedVersesRef
           p  == Position(nv, vIdxRef, wIdxRef)
       IN  (Called /\ ResyncCase(nv, p, lastCall'.spokenWords)) =>
               /\ lastCall'.reveals =
                      << StatusAtPosition(nv, p, FALSE),
                         StatusAtPosition(nv, p + 1, FALSE),
                         StatusAtPosition(nv, p + 2, FALSE),
                         StatusAtPosition(nv, p + 3, TRUE) >>
               /\ revealedWords' = revealedWords \o lastCall'.reveals
               /\ Position(nv, vIdxRef', wIdxRef') = p + 4]_vars

C4_Witness ==
    /\ lastCall.branch = "resync"
    /\ Len(lastCall.spokenWords) = 1
    /\ Len(lastCall.reveals) = 4
    /\ \A k \in 1..3 : ~lastCall.reveals[k].isCorrect
    /\ lastCall.reveals[4].isCorrect
    /\ lastCall.reveals[1].verseNumber # lastCall.reveals[4].verseNumber

\* C5: an unmatched batch that is the third in a row reveals exactly the
\* expected word, as incorrect, moves the cursor one word on (to word 0 of
\* the next verse at a verse end), adds one error and clears the miss count.
C5_MissThresholdEscape ==
    [][LET nv == normalizedVersesRef
           c  == ResolveCursor(nv, vIdxRef, wIdxRef)
           atEnd == c.w + 1 >= WordCount(nv, c.v)
       IN  (Called /\ lastCall'.branch \in {"miss", "force"}
                   /\ consecutiveMissRef = missThreshold - 1) =>
               /\ lastCall'.reveals = <<WordStatus(nv, c.v, c.w, FALSE)>>
               /\ revealedWords' = Append(revealedWords, WordStatus(nv, c.v, c.w, FALSE))
               /\ revealedSetRef' = revealedSetRef \cup {Key(nv[c.v + 1].verse, c.w)}
               /\ Cardinality(revealedSetRef') = Cardinality(revealedSetRef) + 1
               /\ vIdxRef' = (IF atEnd THEN c.v + 1 ELSE c.v)
               /\ wIdxRef' = (IF atEnd THEN 0 ELSE c.w + 1)
               /\ Position(nv, vIdxRef', wIdxRef') = Position(nv, c.v, c.w) + 1
               /\ errorCount' = errorCount + 1
               /\ consecutiveMissRef' = 0]_vars

C5_Witness ==
    /\ lastCall.branch = "force"
    /\ Len(lastCall.reveals) = 1
    /\ consecutiveMissRef = 0
    /\ wIdxRef = 0
    /\ vIdxRef > 0

\* C6: an unmatched batch below the threshold changes the miss counter and
\* nothing else of the tracker.
C6_UnmatchedBatchFrame ==
    [][(Called /\ lastCall'.branch \in {"miss", "force"}
               /\ consecutiveMissRef + 1 < missThreshold) =>
           /\ consecutiveMissRef' = consecutiveMissRef + 1
           /\ lastCall'.reveals = <<>>
           /\ UNCHANGED <<vIdxRef, wIdxRef, revealedSetRef, revealedWords, errorCount>>]_vars

C6_Witness ==
    /\ lastCall.branch = "miss"
    /\ consecutiveMissRef = 2
    /\ revealedWords # <<>>

\* C7: a call with an empty word list, or with no passage loaded, reveals
\* nothing and leaves cursor, revealed set, error count and miss counter as
\* they were.
C7_EmptyInputNoOp ==
    [][(Called /\ (lastCall'.spokenWords = <<>> \/ normalizedVersesRef = <<>>)) =>
           /\ lastCall'.reveals = <<>>
           /\ UNCHANGED trackerVars]_vars

C7_Witness ==
    /\ lastCall.spokenWords = <<>>
    /\ lastCall.branch = "return"
    /\ normalizedVersesRef # <<>>
    /\ consecutiveMissRef > 0

---------------------------------------------------------------------------
(* Properties of the session: recognition events, resets, passage changes *)

TrackerInitial ==
    /\ vIdxRef = 0
    /\ wIdxRef = 0
    /\ revealedSetRef = {}
    /\ revealedWords = <<>>
    /\ errorCount = 0

\* C8: a result event of the instance that was active when handleReset ran
\* leaves cursor, revealed set, revealed words and error count unchanged.
C8_LateResultsIgnored ==
    [][\A i \in 1..Len(recognitions) :
           (recognitions[i].stale /\ recognitions'[i].results # recognitions[i].results) =>
               UNCHANGED <<vIdxRef, wIdxRef, revealedSetRef, revealedWords, errorCount>>]_vars

\* C8, the case: the reset instance has delivered a result after the reset.
C8_Witness ==
    \E i \in 1..Len(recognitions) :
        /\ recognitions[i].stale
        /\ recognitions[i].status = "stopping"
        /\ recognitions[i].results # <<>>
        /\ recognitions[i].results[1].isFinal

\* C9: words are judged only against the verses of the selected surah, and
\* when other verses become the active passage the tracker is in its
\* initial state.
C9_NoStateAcrossPassages ==
    [][/\ (Len(revealedWords') > Len(revealedWords)) =>
              normalizedVersesRef = NormalizedQuran[selectedSurah]
       /\ (normalizedVersesRef' # normalizedVersesRef /\ normalizedVersesRef' # <<>>) =>
              TrackerInitial']_vars

\* C9, the case: the verses of a second surah have become the active passage
\* while an instance started for the first one is still running.
C9_Witness ==
    /\ selectedSurah = 2
    /\ normalizedVersesRef = NormalizedQuran[2]
    /\ \E i \in 1..Len(recognitions) :
          recognitions[i].status = "started" /\ recognitions[i].results # <<>>

AllFinal(results) ==
    /\ results # <<>>
    /\ \A k \in 1..Len(results) : results[k].isFinal

\* C10: once every result of the instance is final, the words handed to
\* processNewWords are the words of the final transcripts, in result order,
\* each one once.
C10_ForwardedOnceInOrder ==
    AllFinal(recognitions[1].results) =>
        forwarded = Flatten([k \in 1..Len(recognitions[1].results) |->
                                SpokenWords(recognitions[1].results[k])])

\* C10, the case: the instance has produced two results, both final now.
C10_Witness ==
    /\ Len(recognitions[1].results) = 2
    /\ AllFinal(recognitions[1].results)
    /\ forwarded # <<>>


---------------------------------------------------------------------------
(* Properties of compareRecitation *)

\* compareRecitation has returned.
Compared == evaluation.fn = "compareRecitation" /\ evaluation.done

\* The token sequences of the two arguments.
RecognizedTokens == Words(evaluation.args[1])
ExpectedTokens   == Words(evaluation.args[2])

\* a / b rounded to the nearest integer, halves up, in exact arithmetic.
RoundHalfUp(a, b) == (2 * a + b) \div (2 * b)

\* C11: when the recognized and the expected text hold the same non-empty
\* token sequence, compareRecitation returns score 100 and no mistakes.
C11_IdenticalInput ==
    (Compared /\ ExpectedTokens # <<>> /\ RecognizedTokens = ExpectedTokens) =>
        evaluation.result = [score |-> 100, mistakes |-> <<>>]

C11_Witness ==
    /\ Compared
    /\ RecognizedTokens = ExpectedTokens
    /\ Len(ExpectedTokens) = MaxAlignWords
    /\ ExpectedTokens[1] = ExpectedTokens[3]
    /\ ExpectedTokens[1] # ExpectedTokens[2]
    /\ evaluation.args[2] # JoinWords(ExpectedTokens)
    /\ evaluation.result.score = 100

\* C12: when the recognized tokens R and the expected tokens E have the
\* same length n and differ at exactly one index k, compareRecitation
\* returns exactly one mistake, of type wrong, at position k with expected
\* E[k] and actual R[k], and the score round(100 * (n - 1) / n), also when
\* R[k] is another word of E.
C12_OneSubstitution ==
    LET R == RecognizedTokens
        E == ExpectedTokens
        differing == {k \in 1..Len(E) : R[k] # E[k]}
    IN  (Compared /\ Len(R) = Len(E) /\ Cardinality(differing) = 1) =>
            LET k == CHOOSE k \in differing : TRUE
            IN  /\ evaluation.result.mistakes =
                       <<[type |-> "wrong", position |-> k - 1, expected |-> E[k],
                          actual |-> R[k]]>>
                /\ evaluation.result.score = RoundHalfUp(100 * (Len(E) - 1), Len(E))

C12_Witness ==
    /\ Compared
    /\ RecognizedTokens = << <<1585, 1576>>, <<1585, 1576>> >>
    /\ ExpectedTokens = << <<1585, 1576>>, <<1602, 1604>> >>
    /\ Len(evaluation.result.mistakes) = 2
    /\ evaluation.result.mistakes[1].type = "extra"
    /\ evaluation.result.mistakes[2].type = "missing"

\* C13: when the recognized text holds no token and the expected text holds
\* n >= 1 tokens, compareRecitation returns score 0 and exactly n mistakes,
\* all of type missing, at positions 0..n-1 in order.
C13_EmptyRecognized ==
    (Compared /\ RecognizedTokens = <<>> /\ Len(ExpectedTokens) >= 1) =>
        /\ evaluation.result.score = 0
        /\ Len(evaluation.result.mistakes) = Len(ExpectedTokens)
        /\ \A i \in 1..Len(ExpectedTokens) :
              /\ evaluation.result.mistakes[i].type = "missing"
              /\ evaluation.result.mistakes[i].position = i - 1

C13_Witness ==
    /\ Compared
    /\ evaluation.args[1] # <<>>
    /\ RecognizedTokens = <<>>
    /\ Len(ExpectedTokens) = MaxAlignWords
    /\ Len(evaluation.result.mistakes) = MaxAlignWords
    /\ evaluation.result.mistakes[MaxAlignWords].position = MaxAlignWords - 1

\* C14: when the expected text holds no token, compareRecitation returns
\* score 100 and no mistakes, whatever the recognized text holds.
C14_EmptyExpected ==
    (Compared /\ ExpectedTokens = <<>>) =>
        evaluation.result = [score |-> 100, mistakes |-> <<>>]

C14_Witness ==
    /\ Compared
    /\ evaluation.args[2] # <<>>
    /\ ExpectedTokens = <<>>
    /\ Len(RecognizedTokens) = MaxAlignWords
    /\ evaluation.result.score = 100

\* C15: for an expected text of n >= 1 tokens the returned score is
\* max(0, round(100 * (n - k) / n)), k being the number of wrong and missing
\* mistakes of the returned list, and it is an integer in 0..100.
C15_ScoreFormula ==
    (Compared /\ Len(ExpectedTokens) >= 1) =>
        LET n == Len(ExpectedTokens)
            k == Len(SelectSeq(evaluation.result.mistakes,
                               LAMBDA m : m.type \in {"wrong", "missing"}))
            rounded == RoundHalfUp(100 * (n - k), n)
        IN  /\ evaluation.result.score = (IF rounded < 0 THEN 0 ELSE rounded)
            /\ evaluation.result.score \in 0..100
C15_Witness ==
    /\ Compared
    /\ Len(ExpectedTokens) = LongVerse
    /\ Len(evaluation.result.mistakes) = 17
    /\ \A i \in 1..17 : evaluation.result.mistakes[i].type = "missing"
    /\ evaluation.result.score = 57
---------------------------------------------------------------------------
(* Properties of normalizeArabic *)

\* normalizeArabic has returned.
Normalized == evaluation.fn = "normalizeArabic" /\ evaluation.done

\* The nonspacing marks of the Arabic blocks of Unicode (U+0600-U+06FF and
\* U+0890-U+08FF).
IsCombiningMark(c) ==
    \/ c \in 1552..1562      \* U+0610-U+061A
    \/ c \in 1611..1631      \* U+064B-U+065F
    \/ c = 1648              \* U+0670
    \/ c \in 1750..1756      \* U+06D6-U+06DC
    \/ c \in 1759..1764      \* U+06DF-U+06E4
    \/ c \in 1767..1768      \* U+06E7-U+06E8
    \/ c \in 1770..1773      \* U+06EA-U+06ED
    \/ c \in 2200..2207      \* U+0898-U+089F
    \/ c \in 2250..2273      \* U+08CA-U+08E1
    \/ c \in 2275..2303      \* U+08E3-U+08FF

WithoutMarks(text) == SelectSeq(text, LAMBDA c : ~IsCombiningMark(c))

\* C16: normalizing the result of normalizeArabic again gives the same
\* text, for every input string.
C16_Idempotent ==
    Normalized => normalizeArabic(evaluation.result) = evaluation.result

C16_Witness ==
    /\ Normalized
    /\ evaluation.args[1] = <<1591, 1571, 32, 1607, 1575>>
    /\ evaluation.result = <<1591, 1575, 32, 1607, 1575>>
    /\ normalizeArabic(evaluation.result) = <<1591, 1607>>

\* C17: normalizeArabic gives the same text for a string and for the string
\* with all its combining diacritic marks removed.
C17_DiacriticInsensitive ==
    Normalized => evaluation.result = normalizeArabic(WithoutMarks(evaluation.args[1]))

C17_Witness ==
    /\ Normalized
    /\ evaluation.args[1] = <<1607, 2288, 1575>>
    /\ evaluation.result = <<1607, 2288, 1575>>
    /\ normalizeArabic(WithoutMarks(evaluation.args[1])) = <<1607, 1575>>
---------------------------------------------------------------------------
(* Properties of fuzzyMatchArabic *)

\* fuzzyMatchArabic has returned.
Matched == evaluation.fn = "fuzzyMatchArabic" /\ evaluation.done

\* short is long with one character left out.
OneLeftOut(short, long) ==
    /\ Len(long) = Len(short) + 1
    /\ \E i \in 1..Len(long) :
          short = SubSeq(long, 1, i - 1) \o SubSeq(long, i + 1, Len(long))

\* At most one insertion, deletion or substitution turns a into b.
WithinOneEdit(a, b) ==
    \/ a = b
    \/ /\ Len(a) = Len(b)
       /\ Cardinality({i \in 1..Len(a) : a[i] # b[i]}) = 1
    \/ OneLeftOut(a, b)
    \/ OneLeftOut(b, a)

\* C18: the matcher answers true exactly when the two tokens are equal, or
\* both have more than 2 characters and are within one edit of each other;
\* it answers true on equal tokens, gives the same answer with its
\* arguments swapped, and a token of at most 2 characters matches only
\* itself.
C18_FuzzyMatcher ==
    Matched =>
        LET a == evaluation.args[1]
            b == evaluation.args[2]
        IN  /\ evaluation.result <=>
                   (a = b \/ (Len(a) > 2 /\ Len(b) > 2 /\ WithinOneEdit(a, b)))
            /\ (a = b) => evaluation.result
            /\ evaluation.result = fuzzyMatchArabic(b, a)
            /\ (Len(a) <= 2 \/ Len(b) <= 2) => (evaluation.result => a = b)

C18_Witness ==
    /\ Matched
    /\ Len(evaluation.args[1]) = 3
    /\ Len(evaluation.args[2]) = 4
    /\ evaluation.result
---------------------------------------------------------------------------
(* Properties of detectVerse *)

\* detectVerse has returned.
Detected == evaluation.fn = "detectVerse" /\ evaluation.done

\* The verses the call searches, and the words it looks for.
Searched ==
    IF evaluation.args[3] # 0 THEN getSurahVerses(evaluation.args[1], evaluation.args[3])
    ELSE getAllVerses(evaluation.args[1])

Spoken == Words(evaluation.args[2])

\* The similarity of the words looked for to every verse searched.
Similarities(searched, spoken) ==
    [k \in 1..Len(searched) |->
        calculateSimilarity(spoken, SplitOnSpace(searched[k].textClean, 1))]

\* C19: when the text handed to detectVerse is the exact text of a verse X
\* among the verses searched, the result is X (its surah and ayah) with
\* confidence 100, also when an earlier verse has all its words contained,
\* in order, in X.
C19_ExactText ==
    Detected =>
        \A searched \in {Searched} : \A k \in 1..Len(searched) :
            (searched[k].text = evaluation.args[2]) =>
                /\ evaluation.result # Null
                /\ evaluation.result.surah = searched[k].surah
                /\ evaluation.result.ayah = searched[k].ayah
                /\ evaluation.result.confidence = 100

C19_Witness ==
    /\ Detected
    /\ \E searched \in {Searched} :
          /\ Len(searched) = 2
          /\ Len(SplitOnSpace(searched[1].textClean, 1)) = 2
          /\ Len(SplitOnSpace(searched[2].textClean, 1)) = 3
          /\ searched[2].text = evaluation.args[2]
    /\ evaluation.result # Null
    /\ evaluation.result.ayah = 1
    /\ evaluation.result.confidence = 100

\* C20: detectVerse returns a verse exactly when the greatest similarity
\* among the verses searched, times 100 and not rounded, is at least 30; the
\* verse returned has that greatest similarity; and a text sharing no word
\* with any verse searched yields no verse.
C20_Cutoff ==
    Detected =>
        \A searched \in {Searched} : \A spoken \in {Spoken} :
            (spoken # <<>> /\ searched # <<>>) =>
                \A similarity \in {Similarities(searched, spoken)} :
                    LET best == CHOOSE k \in 1..Len(searched) :
                                    \A other \in 1..Len(searched) :
                                        ~Greater(similarity[other], similarity[k])
                        percent == Multiply(similarity[best], FromInteger(100))
                        atLeast == ~Greater(FromInteger(confidenceThreshold), percent)
                    IN  /\ (evaluation.result # Null) <=> atLeast
                        /\ (evaluation.result # Null) =>
                               \E k \in 1..Len(searched) :
                                   /\ searched[k] = evaluation.result.verse
                                   /\ similarity[k] = similarity[best]
                        /\ (\A k \in 1..Len(searched) : similarity[k] = Zero) <=>
                               (\A k \in 1..Len(searched) : \A i \in 1..Len(spoken) :
                                    \A word \in {SplitOnSpace(searched[k].textClean, 1)} :
                                        \A j \in 1..Len(word) : spoken[i] # word[j])
                        /\ (\A k \in 1..Len(searched) : similarity[k] = Zero) =>
                               evaluation.result = Null

C20_Witness ==
    /\ Detected
    /\ \E searched \in {Searched} : \E spoken \in {Spoken} :
          /\ Len(searched) = 1
          /\ Len(spoken) = 2
          /\ Len(SplitOnSpace(searched[1].textClean, 1)) = 5
          /\ Greater(FromInteger(confidenceThreshold),
                     Multiply(Similarities(searched, spoken)[1], FromInteger(100)))
    /\ evaluation.result # Null
    /\ evaluation.result.confidence = confidenceThreshold

\* C21: when detectVerse returns a verse and several of the verses searched
\* share the greatest similarity, the verse returned is the first of them in
\* the order in which the verses are searched.
C21_FirstSeenWins ==
    Detected =>
        \A searched \in {Searched} : \A spoken \in {Spoken} :
            (evaluation.result # Null) =>
                \A similarity \in {Similarities(searched, spoken)} :
                    \E k \in 1..Len(searched) :
                        /\ evaluation.result.verse = searched[k]
                        /\ evaluation.result.surah = searched[k].surah
                        /\ evaluation.result.ayah = searched[k].ayah
                        /\ \A other \in 1..Len(searched) :
                               ~Greater(similarity[other], similarity[k])
                        /\ \A earlier \in 1..(k - 1) :
                               Greater(similarity[k], similarity[earlier])

C21_Witness ==
    /\ Detected
    /\ evaluation.result # Null
    /\ \E searched \in {Searched} : \E spoken \in {Spoken} :
          \E similarity \in {Similarities(searched, spoken)} :
              /\ Len(searched) = 3
              /\ evaluation.result.verse = searched[1]
              /\ similarity[3] = similarity[1]
              /\ Greater(similarity[1], similarity[2])

---------------------------------------------------------------------------
(* Further properties of processNewWords *)

\* Every word of the passage has its key in the revealed set.
PassageComplete(nv, revealed) ==
    /\ nv # <<>>
    /\ \A v \in 0..(Len(nv) - 1) : \A w \in 0..(WordCount(nv, v) - 1) :
           Key(nv[v + 1].verse, w) \in revealed

\* C22: once every word of the passage is revealed, a processNewWords call
\* with any word list reveals nothing and leaves the cursor, the revealed
\* set, the revealed words, the error count and the miss counter as they
\* were, so the passage stays complete.
C22_CompleteIsTerminal ==
    [][(Called /\ PassageComplete(normalizedVersesRef, revealedSetRef)) =>
           /\ lastCall'.branch = "return"
           /\ lastCall'.reveals = <<>>
           /\ UNCHANGED trackerVars
           /\ PassageComplete(normalizedVersesRef', revealedSetRef')]_vars

C22_Witness ==
    /\ PassageComplete(normalizedVersesRef, revealedSetRef)
    /\ lastCall.branch = "return"
    /\ Len(lastCall.spokenWords) = MaxBatch
    /\ Len(revealedWords) = TotalWords(normalizedVersesRef)
    /\ errorCount > 0
    /\ consecutiveMissRef = 0

---------------------------------------------------------------------------
(* Properties of the check-recitation endpoint *)

\* The handler has answered.
Responded == endpoint.pc = "responded"

\* The transcription returned a text without any character but white space.
BlankTranscript == endpoint.sttResult # Null /\ IsBlank(endpoint.sttResult.text)

RECURSIVE WordsOfVerses(_, _)
WordsOfVerses(verses, k) ==
    IF k > Len(verses) THEN <<>>
    ELSE SplitOnSpace(verses[k].textClean, 1) \o WordsOfVerses(verses, k + 1)

\* The expected words of the request: those of the verse named by surah and
\* ayah, or, for the version that compares word by word, of the whole surah.
TargetWords ==
    IF endpoint.pc = "none" \/ endpoint.form.surah = undefined THEN <<>>
    ELSE IF endpoint.route = "positional"
    THEN WordsOfVerses(getSurahVerses(endpoint.quran, endpoint.form.surah), 1)
    ELSE IF endpoint.form.ayah = undefined THEN <<>>
    ELSE LET verse == getVerse(endpoint.quran, endpoint.form.surah, endpoint.form.ayah)
         IN  IF verse = Null THEN <<>> ELSE SplitOnSpace(verse.textClean, 1)

\* C23: when the transcript is empty or white space and the target verse has
\* words, the endpoint answers success with score 0 and one "missing"
\* mistake for every expected word, in order.
C23_EmptyTranscriptAllMissing ==
    \A target \in {TargetWords} :
        (Responded /\ BlankTranscript /\ target # <<>>) =>
            /\ endpoint.response.status = 200
            /\ endpoint.response.body.success
            /\ endpoint.response.body.score = 0
            /\ Len(endpoint.response.body.mistakes) = Len(target)
            /\ \A i \in 1..Len(target) :
                  /\ endpoint.response.body.mistakes[i].type = "missing"
                  /\ endpoint.response.body.mistakes[i].expected = target[i]

C23_Witness ==
    /\ Responded
    /\ BlankTranscript
    /\ endpoint.route = "lcs"
    /\ endpoint.sttResult.text = <<32, 32>>
    /\ \E target \in {TargetWords} : Len(target) = 3
    /\ endpoint.response.status = 200
    /\ endpoint.response.body.success
    /\ endpoint.response.body.score = 0
    /\ endpoint.response.body.mistakes = <<>>

\* C24: when transcribeAudio has thrown (no API key, a provider status that
\* is not OK, or a failed request), the handler has called it exactly once,
\* has sent at most one request to the provider, and its response is status
\* 500 with success false and the message of the error, and nothing else: no
\* score, no mistakes.
C24_ProviderFailureIsFinal ==
    (endpoint.pc # "none" /\ endpoint.thrown # Null) =>
        /\ Responded
        /\ endpoint.calls = 1
        /\ endpoint.requests = (IF endpoint.apiKey THEN 1 ELSE 0)
        /\ endpoint.sttResult = Null
        /\ endpoint.response.status = 500
        /\ endpoint.response.body = [success |-> FALSE, error |-> endpoint.thrown]

C24_Witness ==
    /\ Responded
    /\ endpoint.thrown = ErrorMessage("Whisper API error", <<401>>)
    /\ endpoint.calls = 1
    /\ endpoint.requests = 1
    /\ endpoint.response.status = 500
    /\ ~endpoint.response.body.success

---------------------------------------------------------------------------
(* Further properties of one processNewWords call *)

\* The word positions from p on whose key is not in the revealed set.
UnrevealedFrom(nv, revealed, p) ==
    {q \in p..(TotalWords(nv) - 1) :
        Key(nv[Locate(nv, q).v + 1].verse, Locate(nv, q).w) \notin revealed}

\* The call finds a passage, a word list and a cursor before the end of the
\* passage, and the first spoken word matches the expected word at the cursor.
SequentialCase(nv, c, spokenWords) ==
    /\ nv # <<>>
    /\ spokenWords # <<>>
    /\ c.v < Len(nv)
    /\ fuzzyMatchArabic(spokenWords[1], WordAt(nv, c.v, c.w))

\* C25: when the first spoken word matches the expected word at the cursor
\* (word position p), a call with k words reveals exactly min(k, r) words, r
\* being the number of unrevealed words from p to the end of the passage, at
\* the positions p, p + 1, ...; the j-th is correct exactly when the j-th
\* spoken word matches the expected word there; and the cursor ends just after
\* the last of them.
C25_SequentialOneForOne ==
    [][LET nv == normalizedVersesRef
           c  == ResolveCursor(nv, vIdxRef, wIdxRef)
           spokenWords == lastCall'.spokenWords
       IN  (Called /\ SequentialCase(nv, c, spokenWords)) =>
               LET p == Position(nv, c.v, c.w)
                   k == Len(spokenWords)
                   r == Cardinality(UnrevealedFrom(nv, revealedSetRef, p))
                   n == IF k < r THEN k ELSE r
               IN  /\ lastCall'.branch = "sequential"
                   /\ Len(lastCall'.reveals) = n
                   /\ \A j \in 1..n :
                         lastCall'.reveals[j] =
                             StatusAtPosition(nv, p + j - 1,
                                 fuzzyMatchArabic(spokenWords[j],
                                                  WordAtPosition(nv, p + j - 1)))
                   /\ revealedWords' = revealedWords \o lastCall'.reveals
                   /\ Position(nv, vIdxRef', wIdxRef') = p + n
                   /\ (p + n < TotalWords(nv)) =>
                          /\ vIdxRef' = Locate(nv, p + n - 1).v
                          /\ wIdxRef' = Locate(nv, p + n - 1).w + 1]_vars

C25_Witness ==
    /\ lastCall.branch = "sequential"
    /\ Len(lastCall.spokenWords) = 2
    /\ Len(lastCall.reveals) = 2
    /\ lastCall.reveals[1].isCorrect
    /\ ~lastCall.reveals[2].isCorrect
    /\ lastCall.reveals[1].verseNumber # lastCall.reveals[2].verseNumber
    /\ Len(revealedWords) > 2

\* The number of words between position p and the first word from p on that
\* the spoken word fuzzily matches; -1 when there is none.
FirstMatchAhead(nv, p, word) ==
    LET ahead == {k \in 0..(TotalWords(nv) - 1 - p) :
                     fuzzyMatchArabic(word, WordAtPosition(nv, p + k))}
    IN  IF ahead = {} THEN -1
        ELSE CHOOSE k \in ahead : \A other \in ahead : k <= other

\* C26: when the first spoken word does not match the word at the cursor
\* (position p) and its first match lies k words ahead, 1 <= k <= 9, the
\* resynchronization branch reveals exactly the k words p .. p + k - 1 as
\* incorrect before the matched word, over any number of verse boundaries;
\* when the first match lies 10 or more words ahead the branch is not taken.
C26_WindowOfTenWords ==
    [][LET nv == normalizedVersesRef
           c  == ResolveCursor(nv, vIdxRef, wIdxRef)
           spokenWords == lastCall'.spokenWords
       IN  (Called /\ nv # <<>> /\ spokenWords # <<>> /\ c.v < Len(nv)) =>
               \A k \in {FirstMatchAhead(nv, Position(nv, c.v, c.w), spokenWords[1])} :
                   LET p == Position(nv, c.v, c.w)
                   IN  /\ (1 <= k /\ k <= windowSize - 1) =>
                              /\ lastCall'.branch = "resync"
                              /\ Len(lastCall'.reveals) >= k + 1
                              /\ \A j \in 1..k :
                                    lastCall'.reveals[j] = StatusAtPosition(nv, p + j - 1, FALSE)
                              /\ lastCall'.reveals[k + 1] = StatusAtPosition(nv, p + k, TRUE)
                       /\ (k >= windowSize) => lastCall'.branch \in {"miss", "force"}]_vars

C26_Witness ==
    /\ normalizedVersesRef = NormalizedIkhlas
    /\ lastCall.branch = "miss"
    /\ lastCall.spokenWords = << <<1610, 1603, 1606>> >>
    /\ vIdxRef = 0
    /\ wIdxRef = 2
    /\ Len(revealedWords) = 2
    /\ consecutiveMissRef = 1

\* The tracker as a call leaves it, for the next call.
TrackerAfter(t) == [t EXCEPT !.branch = "return", !.reveals = <<>>, !.sounds = 0]

\* The cursor of tracker t is at least one word further than position p.
AdvancedFrom(nv, p, t) ==
    \A c \in {ResolveCursor(nv, t.vIdx, t.wIdx)} : Position(nv, c.v, c.w) > p

\* Word lists of one word.
OneWordBatches == {spokenWords \in Batches : Len(spokenWords) = 1}

\* C27: with a passage loaded and not complete, three processNewWords calls
\* in a row with non-empty word lists (the call of the step, with any word
\* list, and any two calls of one word that follow it) leave the cursor at
\* least one word further than it was.
C27_ThreeBatchesAdvance ==
    [][LET nv == normalizedVersesRef
           c  == ResolveCursor(nv, vIdxRef, wIdxRef)
       IN  (Called /\ lastCall'.spokenWords # <<>> /\ nv # <<>>
                   /\ ~PassageComplete(nv, revealedSetRef)) =>
               \A p \in {IF c.v >= Len(nv) THEN TotalWords(nv) ELSE Position(nv, c.v, c.w)} :
               \A t1 \in {Tracker'} :
                   \/ AdvancedFrom(nv, p, t1)
                   \/ \A second \in OneWordBatches :
                          \A t2 \in {processNewWords(nv, t1, second)} :
                              \/ AdvancedFrom(nv, p, t2)
                              \/ \A third \in OneWordBatches :
                                     AdvancedFrom(nv, p,
                                         processNewWords(nv, TrackerAfter(t2), third))]_vars
C27_Witness ==
    /\ normalizedVersesRef # <<>>
    /\ ~PassageComplete(normalizedVersesRef, revealedSetRef)
    /\ lastCall.branch = "return"
    /\ lastCall.spokenWords # <<>>
    /\ vIdxRef = 1
    /\ wIdxRef = 3
    /\ selectedSurah = 2
    /\ normalizedVersesRef = NormalizedQuran[2]

---------------------------------------------------------------------------
(* The error count *)

\* The revealed words that were judged incorrect.
IncorrectWords == SelectSeq(revealedWords, LAMBDA r : ~r.isCorrect)

\* C28: errorCount is always the number of revealed words with isCorrect
\* false (wrong in sequence, skipped by a resynchronization, or revealed by
\* force), and an unmatched call below the miss threshold leaves it as it is.
C28_ErrorCountMatchesReveals ==
    /\ [](errorCount = Len(IncorrectWords))
    /\ [][(Called /\ lastCall'.branch = "miss") =>
              /\ errorCount' = errorCount
              /\ revealedWords' = revealedWords]_vars

C28_Witness ==
    /\ errorCount = 4
    /\ Len(revealedWords) = 5
    /\ lastCall.branch = "force"
    /\ \E i \in 1..Len(revealedWords) : revealedWords[i].isCorrect
    /\ \E i \in 1..(Len(revealedWords) - 1) :
          /\ ~revealedWords[i].isCorrect
          /\ ~revealedWords[i + 1].isCorrect
          /\ revealedWords[i].verseNumber # revealedWords[i + 1].verseNumber

---------------------------------------------------------------------------
(* Properties of playErrorSound *)

\* C29: any two error sounds are started at least soundWindow ticks (300 ms)
\* apart, and a playErrorSound call made less than that after the last
\* started sound starts none and leaves lastErrorSoundRef, the start of the
\* window, where it was.
C29_RateLimit ==
    /\ [](evaluation.fn = "playErrorSound" =>
              \A i \in 1..Len(evaluation.started) : \A j \in 1..Len(evaluation.started) :
                  (i < j) => evaluation.started[j] - evaluation.started[i] >= soundWindow)
    /\ [][(PlayErrorSound /\ Len(evaluation.started) > 0
              /\ evaluation.now - evaluation.started[Len(evaluation.started)] < soundWindow) =>
              /\ evaluation'.started = evaluation.started
              /\ evaluation'.lastErrorSoundRef = evaluation.lastErrorSoundRef
              /\ evaluation.lastErrorSoundRef = evaluation.started[Len(evaluation.started)]]_vars

C29_Witness ==
    /\ evaluation.fn = "playErrorSound"
    /\ Len(evaluation.started) = 3
    /\ evaluation.started[2] - evaluation.started[1] = soundWindow
    /\ evaluation.started[3] - evaluation.started[2] > soundWindow
    /\ evaluation.dropped = 2
    /\ evaluation.now = evaluation.started[3] + soundWindow - 1

---------------------------------------------------------------------------
(* Properties of the recogniser's restarts *)

\* The instances whose result handler can still be called: started, and
\* neither ended nor failed.
Delivering == {i \in 1..Len(recognitions) : recognitions[i].status \in {"started", "stopping"}}

Ended == {i \in 1..Len(recognitions) : recognitions[i].status = "ended"}

\* C30: at no time can two recognition instances still deliver results to
\* processNewWords, and every instance but the first was started in place of
\* one that has ended: the error and the end of one instance account for one
\* new instance, not two.
C30_RestartsNeverOverlap ==
    /\ Cardinality(Delivering) <= 1
    /\ Len(recognitions) <= Cardinality(Ended) + 1

C30_Witness ==
    /\ Len(recognitions) = 2
    /\ recognitions[1].status = "stopping"
    /\ ~recognitions[1].onend
    /\ recognitions[2].status = "started"
    /\ recognitionRef = 2
    /\ isListeningRef

---------------------------------------------------------------------------
(* Properties of the letter-name table of normalizeArabic *)

\* The entries of letterMappings whose spoken form occurs in text at i.
EntriesAt(text, i) == {k \in 1..Len(letterMappings) : MatchesAt(text, letterMappings[k][1], i)}

\* An entry and a longer entry both match at place i of the text.
TwoEntriesAt(text, i) ==
    \E k, l \in EntriesAt(text, i) : Len(letterMappings[k][1]) < Len(letterMappings[l][1])

\* The text with the longest entry that matches at i put in its Quranic form.
WithLongestAt(text, i) ==
    LET k == CHOOSE k \in EntriesAt(text, i) :
                 \A l \in EntriesAt(text, i) :
                     Len(letterMappings[l][1]) <= Len(letterMappings[k][1])
    IN  SubSeq(text, 1, i - 1) \o letterMappings[k][2]
            \o SubSeq(text, i + Len(letterMappings[k][1]), Len(text))

\* C31: where an entry of the letter-name table and a longer entry both
\* match at the same place of the text, normalizeArabic gives what it gives
\* for the text with the longer entry's Quranic form at that place: the
\* longer entry is the one applied.
C31_LongestPatternFirst ==
    Normalized =>
        \A text \in {stripDiacritics(evaluation.args[1])} :
            \A i \in 1..Len(text) :
                TwoEntriesAt(text, i) =>
                    evaluation.result = normalizeArabic(WithLongestAt(text, i))

\* The four names alif lam mim sad come out as the three-letter token and a
\* leftover sad.
C31_Witness ==
    /\ Normalized
    /\ evaluation.args[1] = <<1571, 1604, 1601, 32, 1604, 1575, 1605, 32,
                              1605, 1610, 1605, 32, 1589, 1575, 1583>>
    /\ TwoEntriesAt(evaluation.args[1], 1)
    /\ WithLongestAt(evaluation.args[1], 1) = <<1575, 1604, 1605, 1589>>
    /\ evaluation.result = <<1575, 1604, 1605, 32, 1589>>

---------------------------------------------------------------------------
(* Properties of calculateSequentialBonus *)

\* calculateSequentialBonus has returned, for a verse that has words.
BonusReturned ==
    /\ evaluation.fn = "calculateSequentialBonus"
    /\ evaluation.done
    /\ evaluation.args[2] # <<>>

\* Length of the longest common subsequence of two word lists.
LcsLength(a, b) == dp(a, b)[Len(a) + 1][Len(b) + 1]

---------------------------------------------------------------------------
(* Further properties of compareRecitation *)

\* C33: for an expected text of n >= 1 words, every mistake compareRecitation
\* returns (wrong, missing or extra) has a position p with 0 <= p < n.
C33_PositionsInRange ==
    (Compared /\ Len(ExpectedTokens) >= 1) =>
        \A i \in 1..Len(evaluation.result.mistakes) :
            evaluation.result.mistakes[i].position \in 0..(Len(ExpectedTokens) - 1)

\* An extra word recited after the only word of the verse is given position 1.
C33_Witness ==
    /\ Compared
    /\ RecognizedTokens = << <<1576, 1587, 1605>>, <<1585, 1576>> >>
    /\ ExpectedTokens = << <<1576, 1587, 1605>> >>
    /\ evaluation.result.mistakes =
           <<[type |-> "extra", position |-> 1, actual |-> <<1585, 1576>>]>>

---------------------------------------------------------------------------
(* Properties of the useAudioRecorder hook *)

\* The MediaRecorders that are recording on a stream whose tracks are live.
RecordingLive ==
    {r \in 1..Len(audioRecorder.recorders) :
         audioRecorder.recorders[r].state = "recording" /\ audioRecorder.streams[r].live}

\* C34: the microphone is always released: a MediaRecorder of the hook
\* records on a live stream only while the hook's status is "recording", and
\* then it is the only one; after a stop, a failure or a reset, and after two
\* overlapping startRecording calls, none is left recording on an unreleased
\* stream.
C34_MicrophoneReleased ==
    audioRecorder.status # "unmounted" =>
        /\ audioRecorder.status # "recording" => RecordingLive = {}
        /\ Cardinality(RecordingLive) <= 1

\* Two startRecording calls before the first getUserMedia resolved: after a
\* stop and a reset, the first recorder still records on its live stream and
\* the hook no longer refers to it.
C34_Witness ==
    /\ audioRecorder.status = "idle"
    /\ audioRecorder.started = 2
    /\ audioRecorder.pending = 0
    /\ audioRecorder.mediaRecorderRef = 2
    /\ audioRecorder.recorders[2].state = "inactive"
    /\ ~audioRecorder.streams[2].live
    /\ RecordingLive = {1}

---------------------------------------------------------------------------
(* The revealed set and the cursor *)

\* The keys of the words that precede the cursor (v, w) in recitation order.
PrefixKeys(nv, v, w) ==
    {Key(nv[Locate(nv, p).v + 1].verse, Locate(nv, p).w) :
         p \in 0..(Position(nv, v, w) - 1)}

\* C35: after every processNewWords call on a loaded passage the revealed
\* set holds exactly the keys of the words that precede the cursor: no
\* unrevealed word behind the cursor, no revealed word at or ahead of it.
C35_RevealedIsPrefix ==
    [][(Called /\ normalizedVersesRef # <<>>) =>
           revealedSetRef' = PrefixKeys(normalizedVersesRef, vIdxRef', wIdxRef')]_vars

\* A call has just run on the verses of surah 1, and the revealed set holds
\* the key of a third word of verse 1, which has two words: the key is left
\* from the words judged against the passage shown before.
C35_Witness ==
    /\ lastCall.branch # "none"
    /\ lastCall.reveals # <<>>
    /\ selectedSurah = 1
    /\ fetches = {}
    /\ normalizedVersesRef # <<>>
    /\ WordCount(normalizedVersesRef, 0) = 2
    /\ Key(1, 2) \in revealedSetRef
    /\ revealedSetRef # PrefixKeys(normalizedVersesRef, vIdxRef, wIdxRef)

---------------------------------------------------------------------------
(* The miss counter *)

\* C36: between calls the miss counter is 0, 1 or 2; a processNewWords call
\* that reveals at least one word leaves it at 0, and so do handleReset and
\* a passage change (the surah effect, the back button).
C36_MissCounterInRange ==
    /\ [](consecutiveMissRef \in 0..(missThreshold - 1))
    /\ [][/\ (Called /\ lastCall'.reveals # <<>>) => consecutiveMissRef' = 0
          /\ ResetStep => consecutiveMissRef' = 0]_vars

\* A call has matched the expected word and revealed it, after an earlier
\* word was revealed by the third miss in a row; the counter is 0.
C36_Witness ==
    /\ lastCall.branch = "sequential"
    /\ Len(lastCall.reveals) = 1
    /\ lastCall.reveals[1].isCorrect
    /\ revealedWords # lastCall.reveals
    /\ ~revealedWords[1].isCorrect
    /\ Len(revealedWords) = 2
    /\ consecutiveMissRef = 0

---------------------------------------------------------------------------
(* The mistakes of compareRecitation and the longest common subsequence *)

\* The returned mistakes of the given types.
MistakesOf(types) == SelectSeq(evaluation.result.mistakes, LAMBDA m : m.type \in types)

\* Every word of either text is accounted for once: with L the length of the
\* longest common subsequence of R and E, #wrong + #missing = |E| - L and
\* #wrong + #extra = |R| - L, and no two wrong or missing mistakes share a
\* position.
AccountedOnce ==
    LET R == RecognizedTokens
        E == ExpectedTokens
        expectedSide == MistakesOf({"wrong", "missing"})
    IN  \A L \in {LcsLength(R, E)} :
            /\ Len(expectedSide) = Len(E) - L
            /\ Len(MistakesOf({"wrong", "extra"})) = Len(R) - L
            /\ \A i, j \in 1..Len(expectedSide) :
                   i # j => expectedSide[i].position # expectedSide[j].position

\* C37: for non-empty token sequences R and E whose longest common
\* subsequence has length L, the mistakes account for every word exactly
\* once, and the score is round(100 * L / |E|).
C37_EveryWordOnce ==
    (Compared /\ RecognizedTokens # <<>> /\ ExpectedTokens # <<>>) =>
        /\ AccountedOnce
        /\ evaluation.result.score =
               RoundHalfUp(100 * LcsLength(RecognizedTokens, ExpectedTokens),
                           Len(ExpectedTokens))

\* 23 of the 40 words of the long verse recited: 17 missing mistakes, every
\* word accounted for once, and the score is 57 where round(100 * 23 / 40)
\* is 58.
C37_Witness ==
    /\ Compared
    /\ Len(RecognizedTokens) = 23
    /\ Len(ExpectedTokens) = LongVerse
    /\ LcsLength(RecognizedTokens, ExpectedTokens) = 23
    /\ AccountedOnce
    /\ Len(MistakesOf({"missing"})) = 17
    /\ RoundHalfUp(100 * 23, LongVerse) = 58
    /\ evaluation.result.score = 57

---------------------------------------------------------------------------
(* The alignment built by compareRecitation *)

\* The alignment the call built from its two token sequences.
Alignment ==
    Backtrack(RecognizedTokens, ExpectedTokens, dp(RecognizedTokens, ExpectedTokens),
              Len(RecognizedTokens), Len(ExpectedTokens), <<>>)

\* The run of non-match entries entry k lies in, numbered by the matches
\* before it.
RunOf(alignment, k) == Cardinality({a \in 1..k : alignment[a].type = "match"})

\* The wrong mistakes returned for the run g of the alignment: those whose
\* position is the expected index of a missing entry of the run.
WrongOfRun(alignment, g) ==
    {i \in 1..Len(evaluation.result.mistakes) :
         /\ evaluation.result.mistakes[i].type = "wrong"
         /\ \E k \in 1..Len(alignment) :
                /\ alignment[k].type = "missing"
                /\ RunOf(alignment, k) = g
                /\ alignment[k].expIdx = evaluation.result.mistakes[i].position}

\* C38: in the alignment, within each maximal run of non-match entries every
\* extra entry precedes every missing entry, and the mistakes hold at most
\* one wrong mistake for each run.
C38_OneSubstitutionPerGap ==
    (Compared /\ RecognizedTokens # <<>> /\ ExpectedTokens # <<>>) =>
        \A alignment \in {Alignment} :
            /\ \A a, b \in 1..Len(alignment) :
                   (/\ a < b
                    /\ RunOf(alignment, a) = RunOf(alignment, b)
                    /\ alignment[a].type # "match"
                    /\ alignment[b].type # "match") =>
                       ~(alignment[a].type = "missing" /\ alignment[b].type = "extra")
            /\ \A g \in 0..Len(alignment) : Cardinality(WrongOfRun(alignment, g)) <= 1
            /\ Len(MistakesOf({"wrong"})) =
                   Cardinality({g \in 0..Len(alignment) : WrongOfRun(alignment, g) # {}})

\* Two words recited in place of the first two of three: the run before the
\* match holds two extra entries, then two missing entries, and one wrong
\* mistake is returned between an extra and a missing one.
C38_Witness ==
    /\ Compared
    /\ Len(RecognizedTokens) = 3
    /\ Len(ExpectedTokens) = 3
    /\ Len(Alignment) = 5
    /\ Alignment[1].type = "extra"
    /\ Alignment[2].type = "extra"
    /\ Alignment[3].type = "missing"
    /\ Alignment[4].type = "missing"
    /\ Alignment[5].type = "match"
    /\ Len(evaluation.result.mistakes) = 3
    /\ evaluation.result.mistakes[1].type = "extra"
    /\ evaluation.result.mistakes[2].type = "wrong"
    /\ evaluation.result.mistakes[3].type = "missing"

---------------------------------------------------------------------------
(* The passage loaded after overlapping fetches *)

\* C39: once no verse fetch is in flight, the verses the tracker uses are
\* those of the surah selected last, in whatever order the answers of
\* overlapping fetches arrived.
C39_LastSelectedLoaded ==
    (selectedSurah \in Surahs /\ fetches = {}) =>
        /\ versesRef = QuranData(selectedSurah)
        /\ normalizedVersesRef = NormalizedQuran[selectedSurah]

\* Surah 2 is selected, both fetches have answered, and the verses in use
\* are those of surah 1, selected before it.
C39_Witness ==
    /\ selectedSurah = 2
    /\ fetches = {}
    /\ ~loadingVerses
    /\ versesRef = QuranData(1)
    /\ normalizedVersesRef = NormalizedQuran[1]
=============================================================================
